---------------------------- MODULE Spec2Model ----------------------------
(***************************************************************************)
(* A model of the hcache analysis tools: the benchmark text parser, the    *)
(* hit-ratio transcript parser, the three directory loaders, the grouping  *)
(* of generate_descriptive_stats, the two-run Excel report and the         *)
(* comprehensive run of analyze_all.                                        *)
(*                                                                         *)
(* Text is modelled as a sequence of tokens.  A token is a maximal piece   *)
(* of text of one lexical class: a literal, a run of letters, a run of     *)
(* decimal digits (kept digit by digit, so that int(), str() and prefix    *)
(* tests are computed, not looked up) or a run of white space.             *)
(***************************************************************************)
EXTENDS Integers, Sequences, FiniteSets, TLC

VARIABLES
    benchLines,     \* parse_benchmark_file: the lines of the file read
    benchOut,       \* parse_benchmark_file: the list `results`
    benchPc,        \* "input" while the file is written, "parsed" after the call
    hitContent,     \* parse_test_output: the text of the transcript read
    hitOut,         \* parse_test_output: parsed_results, or raised
    hitPc,          \* "input" while the transcript is written, "parsed" after the call
    vegName,        \* parse_vegeta_results: the base name of the file read
    vegLines,       \* parse_vegeta_results: the lines of the file read
    vegOut,         \* parse_vegeta_results: the list `results`, or raised
    vegPc,          \* "new", "input" while the file is written, "parsed" after the call
    loadKind,       \* the analyzer constructed: "benchmark", "hitratio", "concurrency"
    loadDir,        \* the files os.listdir(self.input_dir) yields, in its order
    loadOut,        \* how the loader ended, and self.results
    loadAgain,      \* how a second call of the loader ended, and self.results after it
    statsOut,       \* how generate_descriptive_stats ended, and its groups
    runFiles,       \* excel_report: the CSV files of the two run directories, by stem
    summary,        \* excel_report: summary_data, the rows of the Summary sheet
    excelPc,        \* "input" while the CSV files are written, "done" after the report
    runPc,          \* analyze_all: where main is: "main", a stage, "report", "done", "raised"
    runSkip,        \* analyze_all: the --skip-... flags
    runDir,         \* analyze_all: the result directories of the base directory
    runPprof,       \* analyze_all: the state of the pprof directory
    analyzer,       \* analyze_all: the analyzer of each stage and its self.results
    report_paths,   \* analyze_all: self.report_paths, TRUE for a path, FALSE for None
    runReport,      \* analyze_all: what the comprehensive report holds on each analysis
    pprofTool,      \* analyze_profiles: "present" when `go tool pprof` can be run, else "absent"
    pprofDir,       \* analyze_profiles: the files os.listdir(self.input_dir) yields
    pprofPc,        \* "input", "loop", "flamegraph", "top", "parse", "returned" or "raised"
    pprofAt,        \* analyze_profiles: the profile file the loop is at
    pprofFlame,     \* analyze_profiles: profile_result['flamegraph_path'] of that file
    pprofOut,       \* analyze_profiles: the dict `results`
    pprofSelf       \* analyze_profiles: self.results

benchVars == <<benchLines, benchOut, benchPc>>
hitVars == <<hitContent, hitOut, hitPc>>
vegVars == <<vegName, vegLines, vegOut, vegPc>>
loadVars == <<loadKind, loadDir, loadOut, loadAgain, statsOut>>
excelVars == <<runFiles, summary, excelPc>>
runVars == <<runPc, runSkip, runDir, runPprof, analyzer, report_paths, runReport>>
pprofVars == <<pprofTool, pprofDir, pprofPc, pprofAt, pprofFlame, pprofOut, pprofSelf>>

-----------------------------------------------------------------------------
(* Tokens *)

Tok(t, s, d) == [t |-> t, s |-> s, d |-> d]
Lit(s) == Tok("lit", s, <<>>)
W(s) == Tok("w", s, <<>>)
Num(d) == Tok("num", "", d)
Ws(s) == Tok("ws", s, <<>>)
NoTok == Tok("eof", "", <<>>)

At(line, i) == IF i \in 1..Len(line) THEN line[i] ELSE NoTok

\* \w : letters, digits and the underscore
IsWordTok(tok) == tok.t \in {"w", "num"}
\* \d+
IsNumTok(tok) == tok.t = "num"
\* \s
IsWsTok(tok) == tok.t = "ws"

\* The last index of the maximal run of tokens satisfying P that starts at i
\* (i - 1 when the run is empty): how a greedy X+ consumes.
RunEnd(line, i, P(_)) ==
    IF i > Len(line) THEN i - 1
    ELSE CHOOSE j \in (i - 1)..Len(line) :
            /\ \A k \in i..j : P(line[k])
            /\ (j = Len(line) \/ ~P(line[j + 1]))

\* int(): the value of a run of decimal digits
RECURSIVE IntOf(_)
IntOf(d) == IF d = <<>> THEN 0 ELSE 10 * IntOf(SubSeq(d, 1, Len(d) - 1)) + d[Len(d)]

\* the digits of a fraction without its trailing zeros: float("250.50") = 250.5
RECURSIVE StripZeros(_)
StripZeros(d) ==
    IF d # <<>> /\ d[Len(d)] = 0 THEN StripZeros(SubSeq(d, 1, Len(d) - 1)) ELSE d

\* float() of <whole>[.<frac>]
FloatOf(whole, frac) == [whole |-> IntOf(whole), frac |-> StripZeros(frac)]

\* str.split(sep): the pieces of a token sequence between occurrences of sep
RECURSIVE SplitOn(_, _)
SplitOn(seq, sep) ==
    IF \E i \in 1..Len(seq) : seq[i] = sep
    THEN LET i == CHOOSE k \in 1..Len(seq) :
                    seq[k] = sep /\ \A m \in 1..(k - 1) : seq[m] # sep
         IN <<SubSeq(seq, 1, i - 1)>> \o SplitOn(SubSeq(seq, i + 1, Len(seq)), sep)
    ELSE <<seq>>

\* str.split(sep, 1): the text before the first sep and the text after it
SplitOnce(seq, sep) ==
    LET i == CHOOSE k \in 1..Len(seq) :
                seq[k] = sep /\ \A m \in 1..(k - 1) : seq[m] # sep
    IN <<SubSeq(seq, 1, i - 1), SubSeq(seq, i + 1, Len(seq))>>

Contains(seq, tok) == \E i \in 1..Len(seq) : seq[i] = tok

\* the least and the greatest of a set of indices, 0 for the empty set: where
\* a search from the left, or from the right, finds its first match
FirstIn(S) == IF S = {} THEN 0 ELSE CHOOSE j \in S : \A m \in S : j <= m
LastIn(S) == IF S = {} THEN 0 ELSE CHOOSE j \in S : \A m \in S : j >= m

-----------------------------------------------------------------------------
(* BenchmarkAnalyzer.parse_benchmark_file *)

NoGroup == <<>>     \* a regex group that did not take part in the match

\* (?:\s+(\d+) <unit>)?  tried at position p, q being where its \s+ ends
TailGroupAt(line, p, q, unit) ==
    IF /\ q > p
       /\ IsNumTok(At(line, q))
       /\ At(line, q + 1) = Ws(" ")
       /\ At(line, q + 2) = Lit(unit)
    THEN [ok |-> TRUE, val |-> At(line, q).d, next |-> q + 3]
    ELSE [ok |-> FALSE, val |-> NoGroup, next |-> p]

TailGroup(line, p, unit) == TailGroupAt(line, p, RunEnd(line, p, IsWsTok) + 1, unit)

\* the name group Benchmark\w+ : the characters \w accepts
NameTok(tok) == IsWordTok(tok)

\* The pattern
\* ^(Benchmark\w+)(?:-(\d+))?\s+(\d+)\s+(\d+(?:\.\d+)?) ns/op
\*  (?:\s+(\d+) B/op)?(?:\s+(\d+) allocs/op)?$
\* is followed from left to right; m holds the positions found so far.

\* (Benchmark\w+): the greedy run of name characters
WithName(line) == [nameEnd |-> RunEnd(line, 2, NameTok)]

\* (?:-(\d+))?
WithProcs(line, m) ==
    [hasProcs |-> At(line, m.nameEnd + 1) = Lit("-") /\ IsNumTok(At(line, m.nameEnd + 2))] @@ m

AfterProcs(m) == IF m.hasProcs THEN m.nameEnd + 3 ELSE m.nameEnd + 1

\* \s+(\d+)
WithIterations(line, m) == [itPos |-> RunEnd(line, AfterProcs(m), IsWsTok) + 1] @@ m

\* \s+(\d+(?:\.\d+)?)
WithNs(line, m) == [nsPos |-> RunEnd(line, m.itPos + 1, IsWsTok) + 1] @@ m

WithFrac(line, m) ==
    [hasFrac |-> At(line, m.nsPos + 1) = Lit(".") /\ IsNumTok(At(line, m.nsPos + 2))] @@ m

\* the same without the fraction group
AfterNsWhole(m) == m.nsPos + 1

AfterNs(m) == IF m.hasFrac THEN m.nsPos + 3 ELSE m.nsPos + 1

\* (?:\s+(\d+) B/op)?
WithBytes(line, m) == [bytes |-> TailGroup(line, AfterNs(m) + 2, "B/op")] @@ m

\* (?:\s+(\d+) allocs/op)?
WithAllocs(line, m) == [allocs |-> TailGroup(line, m.bytes.next, "allocs/op")] @@ m

Positions(line) ==
    WithAllocs(line, WithBytes(line, WithFrac(line, WithNs(line,
        WithIterations(line, WithProcs(line, WithName(line)))))))

\* the groups of the match with positions m, if the line matches up to $
Groups(line, m) ==
    IF /\ At(line, 1) = Lit("Benchmark")
       /\ m.nameEnd >= 2
       /\ m.itPos > AfterProcs(m)
       /\ IsNumTok(At(line, m.itPos))
       /\ m.nsPos > m.itPos + 1
       /\ IsNumTok(At(line, m.nsPos))
       /\ At(line, AfterNs(m)) = Ws(" ")
       /\ At(line, AfterNs(m) + 1) = Lit("ns/op")
       /\ m.allocs.next = Len(line) + 1
    THEN [ok |-> TRUE,
          name |-> SubSeq(line, 1, m.nameEnd),
          procs |-> IF m.hasProcs THEN At(line, m.nameEnd + 2).d ELSE NoGroup,
          iterations |-> At(line, m.itPos).d,
          ns_whole |-> At(line, m.nsPos).d,
          ns_frac |-> IF m.hasFrac THEN At(line, m.nsPos + 2).d ELSE <<>>,
          bytes_per_op |-> m.bytes.val,
          allocs_per_op |-> m.allocs.val]
    ELSE [ok |-> FALSE]

\* re.match(pattern, line)
BenchMatch(line) == Groups(line, Positions(line))

\* params: for part in name_parts[1:]: if '=' in part: key, value = part.split('=', 1)
RECURSIVE ParamsOf(_)
ParamsOf(parts) ==
    IF parts = <<>> THEN <<>>
    ELSE LET part == Head(parts)
         IN (IF Contains(part, Lit("="))
             THEN <<[key |-> SplitOnce(part, Lit("="))[1],
                     value |-> SplitOnce(part, Lit("="))[2]]>>
             ELSE <<>>) \o ParamsOf(Tail(parts))

\* the same with 0 as the default of every optional group
RecordOfZero(m, name_parts) ==
    [name |-> name_parts[1],
     full_name |-> m.name,
     procs |-> IF m.procs # NoGroup THEN IntOf(m.procs) ELSE 0,
     iterations |-> IntOf(m.iterations),
     ns_per_op |-> FloatOf(m.ns_whole, m.ns_frac),
     bytes_per_op |-> IF m.bytes_per_op # NoGroup THEN IntOf(m.bytes_per_op) ELSE 0,
     allocs_per_op |-> IF m.allocs_per_op # NoGroup THEN IntOf(m.allocs_per_op) ELSE 0,
     params |-> ParamsOf(Tail(name_parts))]

\* the dict built for one matching line (the parameters are kept in assignment
\* order; a later assignment of the same key replaces the earlier one on lookup)
RecordOf(m, name_parts) ==
    [name |-> name_parts[1],
     full_name |-> m.name,
     procs |-> IF m.procs # NoGroup THEN IntOf(m.procs) ELSE 1,
     iterations |-> IntOf(m.iterations),
     ns_per_op |-> FloatOf(m.ns_whole, m.ns_frac),
     bytes_per_op |-> IF m.bytes_per_op # NoGroup THEN IntOf(m.bytes_per_op) ELSE 0,
     allocs_per_op |-> IF m.allocs_per_op # NoGroup THEN IntOf(m.allocs_per_op) ELSE 0,
     params |-> ParamsOf(Tail(name_parts))]

BenchRecord(m) == RecordOf(m, SplitOn(m.name, Lit("/")))

\* the body of the loop for a line whose match is m
LineRecords(m) == IF m.ok THEN <<BenchRecord(m)>> ELSE <<>>

\* the loop over content.split('\n')
RECURSIVE parse_benchmark_file(_)
parse_benchmark_file(lines) ==
    IF lines = <<>> THEN <<>>
    ELSE LineRecords(BenchMatch(Head(lines))) \o parse_benchmark_file(Tail(lines))

\* result.get(key) after result.update(params)
HasParam(rec, key, value) ==
    /\ \E i \in 1..Len(rec.params) : rec.params[i].key = key
    /\ LET last == CHOOSE i \in 1..Len(rec.params) :
                      /\ rec.params[i].key = key
                      /\ \A j \in (i + 1)..Len(rec.params) : rec.params[j].key # key
       IN rec.params[last].value = value

-----------------------------------------------------------------------------
(* Benchmark files: lines produced by `go test -bench`, and damaged ones *)

MaxLines == 3

D1000 == <<1, 0, 0, 0>>
D250 == <<2, 5, 0>>
D64 == <<6, 4>>

\* one line of benchmark output, field by field
BenchFields(base, segs, procs, nsf, bytes, allocs, sep, cut) ==
    [base |-> base, segs |-> segs, procs |-> procs, iters |-> D1000, nsw |-> D250,
     nsf |-> nsf, bytes |-> bytes, allocs |-> allocs, sep |-> sep, cut |-> cut]

RECURSIVE RenderSegs(_)
RenderSegs(segs) ==
    IF segs = <<>> THEN <<>>
    ELSE <<Lit("/"), W(Head(segs)[1]), Lit("="), Num(Head(segs)[2])>> \o RenderSegs(Tail(segs))

\* the text of a line: its fields as Go prints them, less `cut` tokens at the end
Render(g) ==
    LET full == <<Lit("Benchmark"), W(g.base)>> \o RenderSegs(g.segs)
                \o (IF g.procs # <<>> THEN <<Lit("-"), Num(g.procs)>> ELSE <<>>)
                \o <<Ws(g.sep), Num(g.iters), Ws(g.sep), Num(g.nsw)>>
                \o (IF g.nsf # <<>> THEN <<Lit("."), Num(g.nsf)>> ELSE <<>>)
                \o <<Ws(" "), Lit("ns/op")>>
                \o (IF g.bytes # <<>> THEN <<Ws(g.sep), Num(g.bytes), Ws(" "), Lit("B/op")>> ELSE <<>>)
                \o (IF g.allocs # <<>> THEN <<Ws(g.sep), Num(g.allocs), Ws(" "), Lit("allocs/op")>> ELSE <<>>)
    IN SubSeq(full, 1, Len(full) - g.cut)

VS64 == <<"ValueSize", D64>>
KS8 == <<"KeySize", <<8>>>>

\* the lines a file is written from
BenchLineSpecs ==
    { BenchFields("Get", <<>>, <<8>>, <<>>, <<>>, <<>>, "\t", 0),
      BenchFields("Set", <<>>, <<8>>, <<5, 0>>, D64, <<2>>, "\t", 0),
      BenchFields("Get", <<>>, <<>>, <<>>, D64, <<>>, " ", 0),
      BenchFields("Set", <<>>, <<>>, <<>>, <<>>, <<0, 2>>, " ", 0),
      BenchFields("Get", <<VS64>>, <<8>>, <<>>, <<>>, <<>>, "\t", 0),
      BenchFields("Set", <<VS64, KS8>>, <<>>, <<>>, D64, <<2>>, "\t", 0),
      BenchFields("Get", <<>>, <<8>>, <<>>, <<>>, <<>>, "\t", 2),
      BenchFields("Set", <<>>, <<8>>, <<5, 0>>, D64, <<2>>, "\t", 1),
      BenchFields("Set", <<>>, <<8>>, <<5, 0>>, D64, <<2>>, "\t", 6) }

JunkLines ==
    { <<>>,
      <<W("PASS")>>,
      <<W("ok"), Ws("\t"), W("hcache"), Ws("\t"), Num(<<1>>), Lit("."), Num(<<2>>), W("s")>>,
      \* two blanks before the unit
      <<Lit("Benchmark"), W("Get"), Ws(" "), Num(D1000), Ws(" "), Num(D250), Ws(" "), Ws(" "), Lit("ns/op")>> }

BenchLines == {Render(g) : g \in BenchLineSpecs} \cup JunkLines

BenchInit ==
    /\ benchLines = <<>>
    /\ benchOut = <<>>
    /\ benchPc = "input"

\* the file read by the parser gets one more line
WriteBenchLine ==
    /\ benchPc = "input"
    /\ Len(benchLines) < MaxLines
    /\ \E l \in BenchLines : benchLines' = Append(benchLines, l)
    /\ UNCHANGED <<benchOut, benchPc>>

\* df = self.parse_benchmark_file(filepath)
ParseBenchmarkFile ==
    /\ benchPc = "input"
    /\ benchOut' = parse_benchmark_file(benchLines)
    /\ benchPc' = "parsed"
    /\ UNCHANGED benchLines

BenchNext == WriteBenchLine \/ ParseBenchmarkFile


-----------------------------------------------------------------------------
(* HitRatioAnalyzer.parse_test_output *)

\* The labels of a statistics block.  Key("results") is the block header
\* (U+6D4B U+8BD5 U+7ED3 U+679C ':'), then in the order of the pattern:
\* total (total operations), hits, misses, hit_ratio, evictions,
\* eviction_ratio, duration.
Key(k) == Tok("key", k, <<>>)
\* a duration unit: "us" (micro sign + s), "ns", "ms", "s"
Unit(u) == Tok("unit", u, <<>>)
RunMarker == Lit("=== RUN")

FieldOrder == <<"total", "hits", "misses", "hit_ratio", "evictions", "eviction_ratio", "duration">>

\* the label of the hits line is the tail of the label of the misses line
\* (the latter is the former with one more character in front), so a search
\* for the hits label also stops inside a misses label
LabelFound(tok, k) ==
    /\ tok.t = "key"
    /\ (tok.s = k \/ (k = "hits" /\ tok.s = "misses"))

\* [\d.] and [0-9.]
IsNumDotTok(tok) == tok.t = "num" \/ tok = Lit(".")

\* the value of field k starts at v and its run of digits and dots ends at
\* e: the index of the last token of the value, 0 if the text at v is not a
\* value of that field:  (\d+)  |  ([\d.]+)%  |  ([0-9.]+[<micro>nm]?s)
ValueEndAt(content, v, e, k) ==
    CASE k \in {"total", "hits", "misses", "evictions"} ->
            IF IsNumTok(At(content, v)) THEN v ELSE 0
      [] k \in {"hit_ratio", "eviction_ratio"} ->
            IF e >= v /\ At(content, e + 1) = Lit("%") THEN e + 1 ELSE 0
      [] k = "duration" ->
            IF e >= v /\ At(content, e + 1).t = "unit" THEN e + 1 ELSE 0

ValueEnd(content, v, k) == ValueEndAt(content, v, RunEnd(content, v, IsNumDotTok), k)

\* \s+ after the label at index i: where the value starts
ValueStart(content, i) == RunEnd(content, i + 1, IsWsTok) + 1

\* <label>\s+<value> at index i
FieldAt(content, i, k) ==
    /\ LabelFound(At(content, i), k)
    /\ ValueStart(content, i) > i + 1
    /\ ValueEnd(content, ValueStart(content, i), k) > 0

NotFound == [ok |-> FALSE, at |-> 0, val |-> <<>>, end |-> 0]

\* the match of field k with its label at i, its value from v to e
Found(content, i, v, e, k) ==
    [ok |-> TRUE, at |-> i,
     val |-> SubSeq(content, v, IF k \in {"hit_ratio", "eviction_ratio"} THEN e - 1 ELSE e),
     end |-> e]

FoundFrom(content, i, v, k) == Found(content, i, v, ValueEnd(content, v, k), k)

FoundAt(content, i, k) ==
    IF i = 0 THEN NotFound ELSE FoundFrom(content, i, ValueStart(content, i), k)

\* .*?<label>\s+<value> after a matched prefix: the first place it matches
Find(content, prev, k) ==
    IF prev.ok
    THEN FoundAt(content,
                 FirstIn({i \in (prev.end + 1)..Len(content) : FieldAt(content, i, k)}), k)
    ELSE NotFound

\* the fields from the n-th on, each searched after the one before it
RECURSIVE FindFields(_, _, _)
FieldsFrom(content, f, n) == <<f>> \o FindFields(content, f, n + 1)

FindFields(content, prev, n) ==
    IF n > Len(FieldOrder) THEN <<>>
    ELSE FieldsFrom(content, Find(content, prev, FieldOrder[n]), n)

\* the match that starts at h and has the field matches fs
MatchOf(h, fs) ==
    [ok |-> fs[Len(FieldOrder)].ok, start |-> h, end |-> fs[Len(FieldOrder)].end,
     groups |-> [n \in 1..Len(FieldOrder) |-> fs[n].val],
     at |-> [n \in 1..Len(FieldOrder) |-> fs[n].at]]

\* hitratio_pattern tried with the block header at index h
BlockMatch(content, h) ==
    MatchOf(h, FindFields(content,
                          [ok |-> At(content, h) = Key("results"), at |-> h,
                           val |-> <<>>, end |-> h], 1))

\* re.findall(hitratio_pattern, content, re.DOTALL) from index pos on: the
\* matches from left to right, none overlapping the one before
RECURSIVE FindAllFrom(_, _)
MatchAndRest(content, bm) == <<bm>> \o FindAllFrom(content, bm.end + 1)

MatchesFrom(content, h) ==
    IF h = 0 THEN <<>> ELSE MatchAndRest(content, BlockMatch(content, h))

FindAllFrom(content, pos) ==
    MatchesFrom(content, FirstIn({h \in pos..Len(content) : BlockMatch(content, h).ok}))

hitratio_results(content) == FindAllFrom(content, 1)

\* str(n) for n >= 0
RECURSIVE StrOfInt(_)
StrOfInt(n) == IF n < 10 THEN <<n>> ELSE Append(StrOfInt(n \div 10), n % 10)

IsPrefix(p, d) == Len(p) <= Len(d) /\ SubSeq(d, 1, Len(p)) = p

\* the text f"<total label> {total_ops}" occurs at index i: the label, one
\* blank, and digits that begin with the digits of total_ops
TotalTextAt(content, i, total_ops) ==
    /\ At(content, i) = Key("total")
    /\ At(content, i + 1) = Ws(" ")
    /\ IsNumTok(At(content, i + 2))
    /\ IsPrefix(StrOfInt(total_ops), At(content, i + 2).d)

\* content.split(f"<total label> {total_ops}")[0]
TextBefore(content, i) == IF i = 0 THEN content ELSE SubSeq(content, 1, i - 1)

context_before(content, total_ops) ==
    TextBefore(content, FirstIn({i \in 1..Len(content) : TotalTextAt(content, i, total_ops)}))

\* text.split("=== RUN")[-1]
AfterLastRun(text) ==
    SubSeq(text, LastIn({j \in 1..Len(text) : text[j] = RunMarker}) + 1, Len(text))

test_context(content, total_ops) == AfterLastRun(context_before(content, total_ops))

None == "None"

\* "<word>" in test_context
HasWord(ctx, w) == Contains(ctx, W(w))

\* str.lower() of the words of the transcripts
LowerOf(w) ==
    CASE w = "Small" -> "small"
      [] w = "Large" -> "large"
      [] OTHER -> w

\* "<word>" in test_context.lower()
HasWordLower(ctx, w) == \E i \in 1..Len(ctx) : ctx[i].t = "w" /\ LowerOf(ctx[i].s) = w

\* re.search(r'Test(\w+)', test_context): group 1, <<>> when there is no match
WordsAfter(ctx, i) == IF i = 0 THEN <<>> ELSE SubSeq(ctx, i + 1, RunEnd(ctx, i + 1, IsWordTok))

NameOf(ctx) ==
    WordsAfter(ctx, FirstIn({i \in 1..Len(ctx) :
                                ctx[i] = Lit("Test") /\ IsWordTok(At(ctx, i + 1))}))

\* the same with uniform for a context without keyword
DistributionOfDefault(ctx) ==
    IF HasWord(ctx, "ZipfLow") THEN "zipf-1.07"
    ELSE IF HasWord(ctx, "ZipfHigh") THEN "zipf-1.2"
    ELSE "uniform"

DistributionOf(ctx) ==
    IF HasWord(ctx, "ZipfLow") THEN "zipf-1.07"
    ELSE IF HasWord(ctx, "ZipfHigh") THEN "zipf-1.2"
    ELSE IF HasWord(ctx, "Uniform") THEN "uniform"
    ELSE None

\* the same scan with Random tried before the cache policies
PolicyOfRandomFirst(ctx) ==
    IF HasWord(ctx, "Random") THEN "random"
    ELSE IF HasWord(ctx, "LRU") THEN "lru"
    ELSE IF HasWord(ctx, "LFU") THEN "lfu"
    ELSE IF HasWord(ctx, "FIFO") THEN "fifo"
    ELSE None

PolicyOf(ctx) ==
    IF HasWord(ctx, "LRU") THEN "lru"
    ELSE IF HasWord(ctx, "LFU") THEN "lfu"
    ELSE IF HasWord(ctx, "FIFO") THEN "fifo"
    ELSE IF HasWord(ctx, "Random") THEN "random"
    ELSE None

SmallSize == 1000
LargeSize == 100000
MediumSize == 10000

\* the same with the keywords looked up in test_context as it is
SizeAtExact(ctx, i) ==
    IF i > 0 THEN IntOf(ctx[i + 1].d)
    ELSE IF HasWord(ctx, "small") THEN SmallSize
    ELSE IF HasWord(ctx, "large") THEN LargeSize
    ELSE MediumSize

\* re.search(r'Size(\d+)', test_context), else the size named by a keyword
SizeAt(ctx, i) ==
    IF i > 0 THEN IntOf(ctx[i + 1].d)
    ELSE IF HasWordLower(ctx, "small") THEN SmallSize
    ELSE IF HasWordLower(ctx, "large") THEN LargeSize
    ELSE MediumSize

CacheSizeOf(ctx) ==
    SizeAt(ctx, FirstIn({i \in 1..Len(ctx) : ctx[i] = W("Size") /\ IsNumTok(At(ctx, i + 1))}))

\* float() of a run of digits and dots: digits, digits.digits, digits. and
\* .digits are numbers, anything else raises ValueError
FloatRun(run) ==
    CASE Len(run) = 1 /\ IsNumTok(run[1]) ->
            [ok |-> TRUE, v |-> FloatOf(run[1].d, <<>>)]
      [] Len(run) = 2 /\ IsNumTok(run[1]) /\ run[2] = Lit(".") ->
            [ok |-> TRUE, v |-> FloatOf(run[1].d, <<>>)]
      [] Len(run) = 2 /\ run[1] = Lit(".") /\ IsNumTok(run[2]) ->
            [ok |-> TRUE, v |-> FloatOf(<<>>, run[2].d)]
      [] Len(run) = 3 /\ IsNumTok(run[1]) /\ run[2] = Lit(".") /\ IsNumTok(run[3]) ->
            [ok |-> TRUE, v |-> FloatOf(run[1].d, run[3].d)]
      [] OTHER -> [ok |-> FALSE, v |-> FloatOf(<<>>, <<>>)]

RECURSIVE Pow10(_)
Pow10(n) == IF n = 0 THEN 1 ELSE 10 * Pow10(n - 1)

\* a float as the fraction num / den
RatOf(f) == [num |-> f.whole * Pow10(Len(f.frac)) + IntOf(f.frac), den |-> Pow10(Len(f.frac))]

\* "<unit>" in duration_str, for the units the pattern lets through
UnitIn(u, dur) == u = dur.s \/ u = "s"

\* the same with s tried before ms
InMsSecondsFirst(x, dur) ==
    IF UnitIn("us", dur) THEN [num |-> x.num, den |-> x.den * 1000]
    ELSE IF UnitIn("ns", dur) THEN [num |-> x.num, den |-> x.den * 1000000]
    ELSE IF UnitIn("s", dur) THEN [num |-> x.num * 1000, den |-> x.den]
    ELSE IF UnitIn("ms", dur) THEN x
    ELSE [num |-> 0, den |-> 1]

\* duration_ms of the text <number><unit>
InMs(x, dur) ==
    IF UnitIn("us", dur) THEN [num |-> x.num, den |-> x.den * 1000]
    ELSE IF UnitIn("ns", dur) THEN [num |-> x.num, den |-> x.den * 1000000]
    ELSE IF UnitIn("ms", dur) THEN x
    ELSE IF UnitIn("s", dur) THEN [num |-> x.num * 1000, den |-> x.den]
    ELSE [num |-> 0, den |-> 1]

DurationMs(val) == InMs(RatOf(FloatRun(SubSeq(val, 1, Len(val) - 1)).v), val[Len(val)])

\* the conversions of one match that can raise ValueError
MatchRaises(bm) ==
    \/ ~FloatRun(bm.groups[4]).ok
    \/ ~FloatRun(bm.groups[6]).ok
    \/ ~FloatRun(SubSeq(bm.groups[7], 1, Len(bm.groups[7]) - 1)).ok

\* the context the parameters of a match are read from
ContextOf(content, bm) == test_context(content, IntOf(bm.groups[1][1].d))

\* the dict built for one match
RecordIn(ctx, bm) ==
    [test_name |-> NameOf(ctx),
     cache_size |-> CacheSizeOf(ctx),
     distribution |-> DistributionOf(ctx),
     policy |-> PolicyOf(ctx),
     total_operations |-> IntOf(bm.groups[1][1].d),
     hits |-> IntOf(bm.groups[2][1].d),
     misses |-> IntOf(bm.groups[3][1].d),
     hit_ratio |-> FloatRun(bm.groups[4]).v,
     evictions |-> IntOf(bm.groups[5][1].d),
     eviction_ratio |-> FloatRun(bm.groups[6]).v,
     duration_ms |-> DurationMs(bm.groups[7])]

HitRecord(content, bm) == RecordIn(ContextOf(content, bm), bm)

\* the loop over the matches ms: the records, or raised
RecordsOf(content, ms) ==
    IF \E k \in 1..Len(ms) : MatchRaises(ms[k])
    THEN [raised |-> TRUE, records |-> <<>>]
    ELSE [raised |-> FALSE, records |-> [k \in 1..Len(ms) |-> HitRecord(content, ms[k])]]

\* parse_test_output on the text of a file
parse_test_output(content) == RecordsOf(content, hitratio_results(content))


-----------------------------------------------------------------------------
(* Transcripts of `go test -v`: test-start lines and statistics blocks *)

MaxSections == 2

\* the lines of a statistics block, the first n fields of it
RECURSIVE BlockLines(_, _, _, _, _)
BlockLines(n, total, hits, sep, dur) ==
    IF n = 0 THEN <<Key("results"), Ws("\n")>>
    ELSE BlockLines(n - 1, total, hits, sep, dur)
         \o <<Key(FieldOrder[n]), Ws(sep)>>
         \o (CASE n = 1 -> <<Num(total)>>
               [] n = 2 -> <<Num(hits)>>
               [] n = 3 -> <<Num(<<2, 0>>)>>
               [] n = 4 -> <<Num(hits), Lit("."), Num(<<0>>), Lit("%")>>
               [] n = 5 -> <<Num(<<5>>)>>
               [] n = 6 -> <<Num(<<5>>), Lit("."), Num(<<0>>), Lit("%")>>
               [] n = 7 -> dur)
         \o <<Ws("\n")>>

\* one test of a transcript: its start line (with or without the marker, with
\* or without a test name) and its statistics block, whole (fields = 7) or cut
SectionText(sec) ==
    (IF sec.run THEN <<RunMarker, Ws("   ")>> ELSE <<>>)
    \o (IF sec.name # <<>> THEN <<Lit("Test")>> \o sec.name ELSE <<>>)
    \o <<Ws("\n")>>
    \o BlockLines(sec.fields, sec.total, sec.hits, sec.sep, sec.dur)

\* the durations Go prints: 123.4ms, 500<micro>s, 2s, 10ns
Ms1234 == <<Num(<<1, 2, 3>>), Lit("."), Num(<<4>>), Unit("ms")>>
Us500 == <<Num(<<5, 0, 0>>), Unit("us")>>
S2 == <<Num(<<2>>), Unit("s")>>
Ns10 == <<Num(<<1, 0>>), Unit("ns")>>

Sec(run, name, total, hits, sep, fields) ==
    [run |-> run, name |-> name, total |-> total, hits |-> hits, sep |-> sep,
     fields |-> fields, dur |-> Ms1234]

\* the same test taking another time
Taking(sec, dur) == [sec EXCEPT !.dur = dur]

Sections ==
    { Sec(TRUE, <<W("ZipfLow"), W("_"), W("LRU"), W("_"), W("Size"), Num(<<5, 0, 0, 0>>)>>,
          D1000, <<8, 0>>, " ", 7),
      Taking(Sec(TRUE, <<W("Uniform"), W("_"), W("LFU")>>, D1000, <<6, 0>>, " ", 7), Us500),
      Taking(Sec(TRUE, <<W("ZipfHigh"), W("_"), W("FIFO"), W("_"), W("Small")>>,
                 <<1, 0, 0>>, <<7, 0>>, " ", 7), S2),
      Taking(Sec(TRUE, <<W("HitRatio")>>, <<1, 0, 0, 0, 0>>, <<5, 0>>, " ", 7), Ns10),
      Sec(FALSE, <<>>, <<5, 0, 0>>, <<4, 0>>, " ", 7),
      \* the keywords of two distributions and of two policies, the later
      \* ones first in the order of the scans
      Sec(TRUE, <<W("Uniform"), W("Vs"), W("ZipfHigh"), W("_"), W("Random"), W("_"), W("LRU")>>,
          <<2, 0, 0, 0>>, <<7, 5>>, " ", 7),
      \* the keywords in lower case
      Sec(TRUE, <<W("uniform"), W("_"), W("lru")>>, <<3, 0, 0, 0>>, <<6, 5>>, " ", 7),
      \* a test named by a line that is not a test-start line
      Sec(FALSE, <<W("Uniform"), W("_"), W("LRU")>>, <<4, 0, 0, 0>>, <<5, 5>>, " ", 7),
      Sec(TRUE, <<W("Random"), W("_"), W("large")>>, <<0, 3, 0, 0>>, <<3, 0>>, "\t", 7),
      Sec(TRUE, <<W("Uniform"), W("_"), W("LRU")>>, <<2, 0, 0>>, <<9, 0>>, " ", 4) }

BlockCount(content) == Cardinality({i \in 1..Len(content) : content[i] = Key("results")})

HitInit ==
    /\ hitContent = <<>>
    /\ hitOut = [raised |-> FALSE, records |-> <<>>]
    /\ hitPc = "input"

\* the transcript gets the output of one more test
WriteSection ==
    /\ hitPc = "input"
    /\ BlockCount(hitContent) < MaxSections
    /\ \E sec \in Sections : hitContent' = hitContent \o SectionText(sec)
    /\ UNCHANGED <<hitOut, hitPc>>

\* df = self.parse_test_output(filepath)
ParseTestOutput ==
    /\ hitPc = "input"
    /\ hitOut' = parse_test_output(hitContent)
    /\ hitPc' = "parsed"
    /\ UNCHANGED hitContent

HitNext == WriteSection \/ ParseTestOutput

-----------------------------------------------------------------------------
(* ConcurrencyAnalyzer.parse_vegeta_results and extract_test_params *)

\* A JSON value: an object (a function from its keys to values), an array or
\* a number.  A line of a result file holds a JSON value, or text json.loads
\* rejects ("invalid"), or nothing ("blank").
JObj(fields) == [jt |-> "object", fields |-> fields, items |-> <<>>]
JArr(items) == [jt |-> "array", fields |-> <<>>, items |-> items]
JNum(n) == [jt |-> "number", fields |-> <<>>, items |-> <<n>>]
JInvalid == [jt |-> "invalid", fields |-> <<>>, items |-> <<>>]
JBlank == [jt |-> "blank", fields |-> <<>>, items |-> <<>>]

IsJson(line) == line.jt \in {"object", "array", "number"}

Rat(n, d) == [num |-> n, den |-> d]

\* dict.get(key, default)
Get(obj, key, default) == IF key \in DOMAIN obj THEN obj[key] ELSE default

\* the first and the last character of the words of the file names
FirstCharOf(w) ==
    CASE w \in {"s", "sec"} -> "s"
      [] w \in {"m", "min"} -> "m"
      [] w = "h" -> "h"
      [] OTHER -> "?"

LastCharOf(w) ==
    CASE w \in {"c", "conc"} -> "c"
      [] w = "r" -> "r"
      [] w = "d" -> "d"
      [] OTHER -> "?"

\* the index k places after a match at i, 0 when there is no match
Past(i, k) == IF i = 0 THEN 0 ELSE i + k

\* re.search(r'<ch>(\d+)', basename): the index of the digits, 0 when no match
LetterDigitsAt(basename, ch) ==
    Past(FirstIn({i \in 1..Len(basename) :
                    /\ basename[i].t = "w"
                    /\ LastCharOf(basename[i].s) = ch
                    /\ IsNumTok(At(basename, i + 1))}), 1)

\* re.search(r'd(\d+)([smh])', basename): the index of the digits, 0 when no match
DurationAt(basename) ==
    Past(FirstIn({i \in 1..Len(basename) :
                    /\ basename[i].t = "w"
                    /\ LastCharOf(basename[i].s) = "d"
                    /\ IsNumTok(At(basename, i + 1))
                    /\ At(basename, i + 2).t = "w"
                    /\ FirstCharOf(At(basename, i + 2).s) \in {"s", "m", "h"}}), 1)

\* re.search(r'cache-(\w+)', basename): the index where group 1 starts, 0 when no match
CacheAt(basename) ==
    Past(FirstIn({i \in 1..Len(basename) :
                    /\ basename[i] = W("cache")
                    /\ At(basename, i + 1) = Lit("-")
                    /\ IsWordTok(At(basename, i + 2))}), 2)

NoDate == <<0, 0, 0, 0, 0, 0, 0, 0>>      \* '00000000'

DigitsAt(basename, i) == IF i = 0 THEN NoDate ELSE SubSeq(basename[i].d, 1, 8)

\* re.search(r'(\d{8})', basename): the first eight digits in a row
FirstEightDigits(basename) ==
    DigitsAt(basename, FirstIn({i \in 1..Len(basename) :
                                  IsNumTok(basename[i]) /\ Len(basename[i].d) >= 8}))

\* value and unit of the d<value><unit> part of the name, in seconds
SecondsOf(value, unit) ==
    CASE unit = "s" -> Rat(value, 1)
      [] unit = "m" -> Rat(value * 60, 1)
      [] unit = "h" -> Rat(value * 3600, 1)

\* the parameters, the name matching at c, r, d and k (0: no match)
ParamsAt(basename, data, c, r, d, k) ==
    [concurrency |-> IF c > 0 THEN IntOf(basename[c].d) ELSE 1,
     target_rate |-> IF r > 0 THEN Rat(IntOf(basename[r].d), 1)
                     ELSE Get(data, "rate", Rat(0, 1)),
     target_duration |->
         IF d > 0
         THEN SecondsOf(IntOf(basename[d].d), FirstCharOf(basename[d + 1].s))
         ELSE Rat(Get(data, "duration", Rat(0, 1)).num,
                  Get(data, "duration", Rat(0, 1)).den * 1000000000),
     cache_config |-> IF k > 0 THEN SubSeq(basename, k, RunEnd(basename, k, IsWordTok))
                      ELSE <<W("default")>>,
     test_date |-> FirstEightDigits(basename)]

extract_test_params(basename, data) ==
    ParamsAt(basename, data, LetterDigitsAt(basename, "c"), LetterDigitsAt(basename, "r"),
             DurationAt(basename), CacheAt(basename))

\* ns to ms
NsToMs(x) == Rat(x.num, x.den * 1000000)

\* Python floats (IEEE 754 binary64).  A float is m * 2^e: m a natural number
\* of at most 53 bits, e an integer.  A natural number is written as its
\* digits in base 65536 from the lowest to the highest (<<>> is 0), which
\* keeps every intermediate product within 32 bits.  Arithmetic is exact
\* arithmetic followed by rounding to 53 bits, ties to even.  The small
\* numbers below (a factor, a divisor) are under 2^14.

\* the digits without zeros at the high end
RECURSIVE Trim(_)
Trim(digits) ==
    IF digits = <<>> THEN <<>>
    ELSE IF digits[Len(digits)] = 0 THEN Trim(SubSeq(digits, 1, Len(digits) - 1))
    ELSE digits

\* 2^k
Pow2(k) == [i \in 1..(k \div 16 + 1) |-> IF i = k \div 16 + 1 THEN 2 ^ (k % 16) ELSE 0]

\* digits * c for a small number c: the digits and the carry after one more
\* digit, the lower digits having given `lo`
TimesStep(lo, digit, c) ==
    [digits |-> Append(lo.digits, (digit * c + lo.carry) % 65536),
     carry |-> (digit * c + lo.carry) \div 65536]

RECURSIVE TimesUpTo(_, _, _)
TimesUpTo(digits, c, i) ==
    IF i = 0 THEN [digits |-> <<>>, carry |-> 0]
    ELSE TimesStep(TimesUpTo(digits, c, i - 1), digits[i], c)

WithCarry(res) == Append(res.digits, res.carry)

TimesSmall(digits, c) == Trim(WithCarry(TimesUpTo(digits, c, Len(digits))))

\* quotient and remainder of digits / d for a small number d, the higher
\* digits having given the quotient and remainder `hi`
DivStep(hi, digit, d) ==
    [q |-> <<(65536 * hi.r + digit) \div d>> \o hi.q, r |-> (65536 * hi.r + digit) % d]

RECURSIVE DivSmall(_, _)
DivSmall(digits, d) ==
    IF digits = <<>> THEN [q |-> <<>>, r |-> 0]
    ELSE DivStep(DivSmall(Tail(digits), d), Head(digits), d)

\* a - b for a >= b: the digits and the borrow after one more digit, the lower
\* digits having given `lo`
MinusStep(lo, x, y) ==
    [digits |-> Append(lo.digits, (x + 65536 - y - lo.borrow) % 65536),
     borrow |-> IF x - y - lo.borrow < 0 THEN 1 ELSE 0]

RECURSIVE MinusUpTo(_, _, _)
MinusUpTo(a, b, i) ==
    IF i = 0 THEN [digits |-> <<>>, borrow |-> 0]
    ELSE MinusStep(MinusUpTo(a, b, i - 1), a[i], IF i <= Len(b) THEN b[i] ELSE 0)

Minus(a, b) == Trim(MinusUpTo(a, b, Len(a)).digits)

RECURSIVE PlusOne(_)
PlusOne(digits) ==
    IF digits = <<>> THEN <<1>>
    ELSE IF Head(digits) < 65535 THEN <<Head(digits) + 1>> \o Tail(digits)
    ELSE <<0>> \o PlusOne(Tail(digits))

\* the number of bits of a digit and of a natural number
RECURSIVE BitsIn(_)
BitsIn(n) == IF n = 0 THEN 0 ELSE 1 + BitsIn(n \div 2)

BitLen(digits) ==
    IF digits = <<>> THEN 0 ELSE 16 * (Len(digits) - 1) + BitsIn(digits[Len(digits)])

\* m * 2^e with m of up to 54 bits after the rounding step: back to 53 bits
\* (a rounding step ends at 54 bits only with 2^53)
Normal(m, e) ==
    IF BitLen(m) > 53 THEN [m |-> Trim(DivSmall(m, 2).q), e |-> e + 1] ELSE [m |-> m, e |-> e]

\* quotient dv.q and remainder dv.r of a division by d rounded to the nearest
\* natural number, ties to even
Nearest(dv, d, e) ==
    Normal(IF 2 * dv.r > d \/ (2 * dv.r = d /\ dv.q # <<>> /\ dv.q[1] % 2 = 1)
           THEN PlusOne(Trim(dv.q)) ELSE Trim(dv.q),
           e)

\* the float nearest to digits * 2^e (at most 14 bits are rounded away)
RoundBits(digits, e) ==
    IF BitLen(digits) <= 53 THEN [m |-> digits, e |-> IF digits = <<>> THEN 0 ELSE e]
    ELSE Nearest(DivSmall(digits, 2 ^ (BitLen(digits) - 53)), 2 ^ (BitLen(digits) - 53),
                 e + BitLen(digits) - 53)

\* the j with den <= num * 2^j < 2 * den, for 0 < num < 2 * den
RECURSIVE ScaleOf(_, _)
ScaleOf(num, den) == IF num >= den THEN 0 ELSE 1 + ScaleOf(2 * num, den)

FloatAt(num, den, k) == Nearest(DivSmall(TimesSmall(Pow2(k), num), den), den, 0 - k)

\* the number num / den of a JSON text as json.loads returns it, for
\* 0 <= num / den < 2: the nearest float (an int is the float of its value)
FloatOfJson(num, den) ==
    IF num = 0 THEN [m |-> <<>>, e |-> 0] ELSE FloatAt(num, den, 52 + ScaleOf(num, den))

\* 1 - x for a float 0 <= x <= 1
OneMinus(x) ==
    IF x.m = <<>> THEN [m |-> <<1>>, e |-> 0]
    ELSE RoundBits(Minus(Pow2(0 - x.e), x.m), x.e)

\* c * x for a float x and a small natural number c
TimesFloat(c, x) == RoundBits(TimesSmall(x.m, c), x.e)

\* the metrics of one payload
VegetaMetrics(item) ==
    LET lat == Get(item, "latencies", <<>>)
        dur == Get(item, "duration", Rat(0, 1))
        ok == Get(item, "success", Rat(0, 1))
    IN [latency_mean |-> NsToMs(Get(lat, "mean", Rat(0, 1))),
        latency_p50 |-> NsToMs(Get(lat, "50th", Rat(0, 1))),
        latency_p90 |-> NsToMs(Get(lat, "90th", Rat(0, 1))),
        latency_p95 |-> NsToMs(Get(lat, "95th", Rat(0, 1))),
        latency_p99 |-> NsToMs(Get(lat, "99th", Rat(0, 1))),
        latency_max |-> NsToMs(Get(lat, "max", Rat(0, 1))),
        throughput |-> Get(item, "throughput", Rat(0, 1)),
        success_rate |-> TimesFloat(100, OneMinus(FloatOfJson(ok.num, ok.den))),
        requests |-> Get(item, "requests", Rat(0, 1)),
        duration |-> Rat(dur.num, dur.den * 1000000000),
        errors |-> Get(item, "errors", Rat(0, 1)),
        rate |-> Get(item, "rate", Rat(0, 1))]

NonBlank(lines) == SelectSeq(lines, LAMBDA l : l.jt # "blank")

\* the same without the second attempt: a text json.loads rejects holds nothing
VegetaDataWhole(lines) ==
    LET text == NonBlank(lines)
    IN IF Len(text) = 1 /\ IsJson(text[1])
       THEN (IF text[1].jt = "array" THEN text[1].items ELSE <<text[1]>>)
       ELSE <<>>

\* `data` after the two attempts to read the text: json.loads(content) takes a
\* text that holds one JSON value; any other text is read line by line, the
\* lines json.loads rejects being passed over
VegetaData(lines) ==
    LET text == NonBlank(lines)
    IN IF Len(text) = 1 /\ IsJson(text[1])
       THEN (IF text[1].jt = "array" THEN text[1].items ELSE <<text[1]>>)
       ELSE SelectSeq(text, IsJson)

\* the loop over `data`: the records, or raised (AttributeError: an item that
\* is no object has no .get)
VegetaRecords(basename, data) ==
    IF \E i \in 1..Len(data) : data[i].jt # "object"
    THEN [raised |-> TRUE, records |-> <<>>]
    ELSE [raised |-> FALSE,
          records |-> [i \in 1..Len(data) |->
                         extract_test_params(basename, data[i].fields)
                         @@ VegetaMetrics(data[i].fields)]]

\* parse_vegeta_results on the lines of a file
parse_vegeta_results(basename, lines) == VegetaRecords(basename, VegetaData(lines))

-----------------------------------------------------------------------------
(* Vegeta result files: their names and their lines *)

MaxJsonLines == 3

\* c20_r100_d30s_cache-lru_20250603.json
ConcFull ==
    <<W("c"), Num(<<2, 0>>), W("_"), W("r"), Num(<<1, 0, 0>>), W("_"), W("d"), Num(<<3, 0>>),
      W("s"), W("_"), W("cache"), Lit("-"), W("lru"), W("_"), Num(<<2, 0, 2, 5, 0, 6, 0, 3>>),
      Lit("."), W("json")>>

\* conc50_d2min.json
ConcMinutes ==
    <<W("conc"), Num(<<5, 0>>), W("_"), W("d"), Num(<<2>>), W("min"), Lit("."), W("json")>>

\* results.json
ConcPlain == <<W("results"), Lit("."), W("json")>>

VegetaNames == {ConcFull, ConcMinutes, ConcPlain}

\* the report of an attack: 95% of 1000 requests answered
Report95 ==
    JObj([requests |-> Rat(1000, 1), rate |-> Rat(500, 1), success |-> Rat(95, 100),
          duration |-> Rat(500000000, 1), latencies |-> [mean |-> Rat(2000000, 1)]])

\* every one of 2000 requests answered
Report100 ==
    JObj([requests |-> Rat(2000, 1), rate |-> Rat(250, 1), success |-> Rat(1, 1)])

\* a report without success, rate and duration
ReportBare == JObj([requests |-> Rat(3000, 1)])

\* a report that names the concurrency and the cache of its run
ReportTagged ==
    JObj([requests |-> Rat(4000, 1), success |-> Rat(1, 2), concurrency |-> 50,
          cache_config |-> <<W("lfu")>>])

Reports == {Report95, Report100, ReportBare, ReportTagged}

\* the lines a result file is written from
JsonLines == Reports \cup {JInvalid, JBlank, JArr(<<Report95, Report100>>), JNum(5)}

VegetaInit ==
    /\ vegName = <<>>
    /\ vegLines = <<>>
    /\ vegOut = [raised |-> FALSE, records |-> <<>>]
    /\ vegPc = "new"

\* the result file gets its name
NameVegetaFile ==
    /\ vegPc = "new"
    /\ \E name \in VegetaNames : vegName' = name
    /\ vegPc' = "input"
    /\ UNCHANGED <<vegLines, vegOut>>

\* the result file gets one more line
WriteJsonLine ==
    /\ vegPc = "input"
    /\ Len(vegLines) < MaxJsonLines
    /\ \E l \in JsonLines : vegLines' = Append(vegLines, l)
    /\ UNCHANGED <<vegName, vegOut, vegPc>>

\* df = self.parse_vegeta_results(filepath)
ParseVegetaResults ==
    /\ vegPc = "input"
    /\ vegOut' = parse_vegeta_results(vegName, vegLines)
    /\ vegPc' = "parsed"
    /\ UNCHANGED <<vegName, vegLines>>

VegetaNext == NameVegetaFile \/ WriteJsonLine \/ ParseVegetaResults

-----------------------------------------------------------------------------
(* load_benchmark_results, load_test_results, load_concurrency_results *)

\* filename.endswith('.' + ext)
EndsWithExt(name, ext) ==
    Len(name) >= 2 /\ name[Len(name) - 1] = Lit(".") /\ name[Len(name)] = W(ext)

\* the files of the directory a loader reads
IsCandidate(kind, name) ==
    CASE kind = "benchmark" -> EndsWithExt(name, "txt")
      [] kind = "hitratio" -> EndsWithExt(name, "txt") \/ EndsWithExt(name, "log")
      [] kind = "concurrency" -> EndsWithExt(name, "json") \/ EndsWithExt(name, "vegeta")

\* re.search(r'(\w+)_(\d{8})\.txt', filename): the index of the date, 0 when no match
BenchNameMatch(name) ==
    FirstIn({i \in 1..Len(name) :
                /\ IsWordTok(At(name, i - 2))
                /\ At(name, i - 1) = W("_")
                /\ IsNumTok(name[i]) /\ Len(name[i].d) = 8
                /\ At(name, i + 1) = Lit(".")
                /\ At(name, i + 2) = W("txt")})

\* re.search(r'hitratio_(\d{8})\.(?:txt|log)', filename): the index of the date
HitNameMatch(name) ==
    FirstIn({i \in 1..Len(name) :
                /\ At(name, i - 2) = W("hitratio")
                /\ At(name, i - 1) = W("_")
                /\ IsNumTok(name[i]) /\ Len(name[i].d) = 8
                /\ At(name, i + 1) = Lit(".")
                /\ At(name, i + 2) \in {W("txt"), W("log")}})

DateAt(name, i) == IF i > 0 THEN name[i].d ELSE NoDate

\* date_str of a file of the benchmark and of the hit-ratio loader
DateStr(kind, name) ==
    DateAt(name, IF kind = "benchmark" THEN BenchNameMatch(name) ELSE HitNameMatch(name))

\* group 1 of a match with the date at i: the word characters before the '_'
TypeAt(name, i) ==
    IF i > 0
    THEN SubSeq(name,
                FirstIn({j \in 1..i : /\ \A m \in j..(i - 2) : IsWordTok(name[m])
                                      /\ (j = 1 \/ ~IsWordTok(name[j - 1]))}),
                i - 2)
    ELSE <<W("unknown")>>

\* test_type of a benchmark file
TestType(name) == TypeAt(name, BenchNameMatch(name))

DaysIn(year, month) ==
    IF month = 2
    THEN (IF year % 4 = 0 /\ (year % 100 # 0 \/ year % 400 = 0) THEN 29 ELSE 28)
    ELSE IF month \in {4, 6, 9, 11} THEN 30 ELSE 31

\* pd.to_datetime(date_str, format='%Y%m%d') returns a date: the text is a
\* calendar date a Timestamp can hold; it raises ValueError otherwise
DateOk(d) ==
    LET year == IntOf(SubSeq(d, 1, 4))
        month == IntOf(SubSeq(d, 5, 6))
        day == IntOf(SubSeq(d, 7, 8))
    IN /\ year \in 1678..2261     \* the years a pandas Timestamp holds whole
       /\ month \in 1..12
       /\ day \in 1..DaysIn(year, month)

\* the metadata columns added to the rows of a frame
WithColumns(rows, columns) == [i \in 1..Len(rows) |-> rows[i] @@ columns]

BenchFileStep(file, source_file, date_str, rows) ==
    IF ~file.readable \/ ~DateOk(date_str)
    THEN [status |-> "raise", rows |-> <<>>]
    ELSE [status |-> "append",
          rows |-> WithColumns(rows, [test_type |-> TestType(file.name),
                                      date |-> date_str,
                                      source_file |-> source_file])]

HitFileStep(file, source_file, date_str, df) ==
    IF ~file.readable \/ df.raised \/ ~DateOk(date_str)
    THEN [status |-> "skip", rows |-> <<>>]
    ELSE [status |-> "append",
          rows |-> WithColumns(df.records, [date |-> date_str, source_file |-> source_file])]

ConcFileStep(file, source_file, df) ==
    IF \/ ~file.readable
       \/ df.raised
       \/ \E i \in 1..Len(df.records) : ~DateOk(df.records[i].test_date)
    THEN [status |-> "skip", rows |-> <<>>]
    ELSE [status |-> "append",
          rows |-> [i \in 1..Len(df.records) |->
                      df.records[i] @@ [date |-> df.records[i].test_date,
                                        source_file |-> source_file]]]

\* what the body of the loop does with one candidate file: "append" a frame of
\* rows to all_results, "skip" the file (the exception is caught and printed)
\* or "raise" (the exception leaves the loader)
FileStep(kind, file, source_file) ==
    CASE kind = "benchmark" ->
            BenchFileStep(file, source_file, DateStr(kind, file.name),
                          parse_benchmark_file(file.content))
      [] kind = "hitratio" ->
            HitFileStep(file, source_file, DateStr(kind, file.name),
                        parse_test_output(file.content))
      [] kind = "concurrency" ->
            ConcFileStep(file, source_file, parse_vegeta_results(file.name, file.content))

RECURSIVE Concat(_)
Concat(frames) == IF frames = <<>> THEN <<>> ELSE Head(frames) \o Concat(Tail(frames))

\* the end of a loader
Loaded(frames) ==
    IF frames = <<>>
    THEN [outcome |-> "ValueError: no results found", results |-> <<>>]
    ELSE [outcome |-> "returned", results |-> Concat(frames)]

\* the loop over os.listdir(self.input_dir) from file i on, all_results so far
\* being `frames`
RECURSIVE LoadFrom(_, _, _, _)
AfterFile(kind, dir, i, frames, step) ==
    CASE step.status = "append" -> LoadFrom(kind, dir, i + 1, Append(frames, step.rows))
      [] step.status = "skip" -> LoadFrom(kind, dir, i + 1, frames)
      [] step.status = "raise" -> [outcome |-> "raised in a file", results |-> <<>>]

LoadFrom(kind, dir, i, frames) ==
    IF i > Len(dir) THEN Loaded(frames)
    ELSE IF ~IsCandidate(kind, dir[i].name) THEN LoadFrom(kind, dir, i + 1, frames)
    ELSE AfterFile(kind, dir, i, frames, FileStep(kind, dir[i], i))

load_results(kind, dir) == LoadFrom(kind, dir, 1, <<>>)

-----------------------------------------------------------------------------
(* generate_descriptive_stats of the three analyzers *)

\* the columns self.results is grouped by
GroupColumns(kind) ==
    CASE kind = "benchmark" -> <<"name", "ValueSize">>
      [] kind = "hitratio" -> <<"distribution", "policy", "cache_size">>
      [] kind = "concurrency" -> <<"concurrency", "target_rate", "cache_config">>

\* the columns every record of a parser has
RecordColumns(kind) ==
    CASE kind = "benchmark" ->
            {"name", "full_name", "procs", "iterations", "ns_per_op", "bytes_per_op", "allocs_per_op"}
      [] kind = "hitratio" ->
            {"test_name", "cache_size", "distribution", "policy", "total_operations", "hits",
             "misses", "hit_ratio", "evictions", "eviction_ratio", "duration_ms"}
      [] kind = "concurrency" ->
            {"concurrency", "target_rate", "target_duration", "cache_config", "test_date",
             "latency_mean", "latency_p50", "latency_p90", "latency_p95", "latency_p99",
             "latency_max", "throughput", "success_rate", "requests", "duration", "errors", "rate"}

\* a benchmark row has a value in the column of a name parameter
RowHasParam(row, col) == \E i \in 1..Len(row.params) : row.params[i].key = <<W(col)>>

\* col in self.results.columns: a column of the records exists once a frame
\* has a row, a parameter column once a row has that parameter
HasColumn(kind, rows, col) ==
    \/ col \in RecordColumns(kind) /\ rows # <<>>
    \/ kind = "benchmark" /\ \E i \in 1..Len(rows) : RowHasParam(rows[i], col)

\* the row has no value (NaN or None) in column col
IsNull(kind, row, col) ==
    CASE kind = "benchmark" -> col \notin RecordColumns(kind) /\ ~RowHasParam(row, col)
      [] kind = "hitratio" -> col \in {"distribution", "policy"} /\ row[col] = None
      [] kind = "concurrency" -> FALSE

\* the group a row falls in (rows with a null key column are in no group:
\* DataFrame.groupby leaves them out)
GroupKey(kind, row) ==
    CASE kind = "benchmark" ->
            <<row.name,
              row.params[CHOOSE i \in 1..Len(row.params) :
                            /\ row.params[i].key = <<W("ValueSize")>>
                            /\ \A j \in (i + 1)..Len(row.params) :
                                  row.params[j].key # <<W("ValueSize")>>].value>>
      [] kind = "hitratio" -> <<row.distribution, row.policy, row.cache_size>>
      [] kind = "concurrency" -> <<row.concurrency, row.target_rate, row.cache_config>>

Grouped(kind, rows) ==
    {i \in 1..Len(rows) : \A c \in 1..Len(GroupColumns(kind)) :
                              ~IsNull(kind, rows[i], GroupColumns(kind)[c])}

\* the groups of self.results.groupby(...): each key with the rows of the group
GroupBy(kind, rows) ==
    {[key |-> k, rows |-> {i \in Grouped(kind, rows) : GroupKey(kind, rows[i]) = k}] :
        k \in {GroupKey(kind, rows[i]) : i \in Grouped(kind, rows)}}

\* generate_descriptive_stats on what the loader left in self.results
generate_descriptive_stats(kind, loaded) ==
    IF loaded.outcome # "returned"
    THEN [outcome |-> "ValueError: no results loaded", groups |-> {}]
    ELSE IF \E c \in 1..Len(GroupColumns(kind)) :
                ~HasColumn(kind, loaded.results, GroupColumns(kind)[c])
    THEN [outcome |-> "KeyError", groups |-> {}]
    ELSE [outcome |-> "returned", groups |-> GroupBy(kind, loaded.results)]

-----------------------------------------------------------------------------
(* Result directories *)

MaxFiles == 2

D20250603 == <<2, 0, 2, 5, 0, 6, 0, 3>>

File(name, readable, content) == [name |-> name, readable |-> readable, content |-> content]

NotesMd == <<W("notes"), Lit("."), W("md")>>

BenchDated == <<W("bench"), W("_"), Num(D20250603), Lit("."), W("txt")>>
BenchUndated == <<W("bench"), Lit("."), W("txt")>>
PlainLine == Render(BenchFields("Get", <<>>, <<8>>, <<>>, <<>>, <<>>, "\t", 0))
SizedLine == Render(BenchFields("Get", <<VS64>>, <<8>>, <<>>, <<>>, <<>>, "\t", 0))

HitDated == <<W("hitratio"), W("_"), Num(D20250603), Lit("."), W("log")>>
HitOtherName == <<W("zipf"), W("_"), Num(D20250603), Lit("."), W("txt")>>
HitUndated == <<W("hitratio"), Lit("."), W("log")>>
ResolvedSec == Sec(TRUE, <<W("ZipfLow"), W("_"), W("LRU")>>, D1000, <<8, 0>>, " ", 7)
UnresolvedSec == Sec(TRUE, <<W("HitRatio")>>, <<5, 0, 0>>, <<5, 0>>, " ", 7)

ConcDated == <<W("c"), Num(<<1, 0>>), W("_"), W("r"), Num(<<5, 0, 0>>), W("_"),
               Num(D20250603), Lit("."), W("json")>>
ConcUndated == <<W("results"), Lit("."), W("json")>>
Payload == JObj([rate |-> Rat(500, 1), success |-> Rat(95, 100),
                 latencies |-> [mean |-> Rat(2000000, 1)]])

\* the files a directory is filled from
Files(kind) ==
    CASE kind = "benchmark" ->
            { File(BenchDated, TRUE, <<PlainLine>>),
              File(BenchDated, TRUE, <<SizedLine, PlainLine>>),
              File(BenchDated, TRUE, <<<<W("PASS")>>>>),
              File(BenchDated, FALSE, <<PlainLine>>),
              File(BenchUndated, TRUE, <<PlainLine>>),
              File(NotesMd, TRUE, <<PlainLine>>) }
      [] kind = "hitratio" ->
            { File(HitDated, TRUE, SectionText(ResolvedSec)),
              File(HitDated, TRUE, SectionText(UnresolvedSec)),
              File(HitDated, TRUE, <<W("PASS"), Ws("\n")>>),
              File(HitDated, FALSE, SectionText(ResolvedSec)),
              File(HitOtherName, TRUE, SectionText(ResolvedSec)),
              File(HitUndated, TRUE, SectionText(ResolvedSec)),
              File(NotesMd, TRUE, SectionText(ResolvedSec)) }
      [] kind = "concurrency" ->
            { File(ConcDated, TRUE, <<Payload>>),
              File(ConcDated, TRUE, <<Payload, JInvalid, Payload>>),
              File(ConcDated, TRUE, <<JInvalid>>),
              File(ConcDated, TRUE, <<JNum(5)>>),
              File(ConcDated, FALSE, <<Payload>>),
              File(ConcUndated, TRUE, <<Payload>>),
              File(NotesMd, TRUE, <<Payload>>) }

Kinds == {"benchmark", "hitratio", "concurrency"}

NotLoaded == [outcome |-> "not called", results |-> <<>>]
NoStats == [outcome |-> "not called", groups |-> {}]

LoadInit ==
    /\ loadKind = "none"
    /\ loadDir = <<>>
    /\ loadOut = NotLoaded
    /\ loadAgain = NotLoaded
    /\ statsOut = NoStats

\* BenchmarkAnalyzer(...), HitRatioAnalyzer(...) or ConcurrencyAnalyzer(...)
NewAnalyzer ==
    /\ loadKind = "none"
    /\ \E kind \in Kinds : loadKind' = kind
    /\ UNCHANGED <<loadDir, loadOut, loadAgain, statsOut>>

\* the input directory gets one more file
AddFile ==
    /\ loadKind \in Kinds
    /\ loadOut = NotLoaded
    /\ Len(loadDir) < MaxFiles
    /\ \E f \in Files(loadKind) : loadDir' = Append(loadDir, f)
    /\ UNCHANGED <<loadKind, loadOut, loadAgain, statsOut>>

\* analyzer.load_benchmark_results() / load_test_results() / load_concurrency_results()
LoadResults ==
    /\ loadKind \in Kinds
    /\ loadOut = NotLoaded
    /\ loadOut' = load_results(loadKind, loadDir)
    /\ UNCHANGED <<loadKind, loadDir, loadAgain, statsOut>>

\* analyzer.generate_descriptive_stats()
GenerateDescriptiveStats ==
    /\ loadOut # NotLoaded
    /\ statsOut = NoStats
    /\ statsOut' = generate_descriptive_stats(loadKind, loadOut)
    /\ UNCHANGED <<loadKind, loadDir, loadOut, loadAgain>>

\* all_results = [] at the start of a call: a loader keeps nothing of an
\* earlier call
all_resultsKept(loaded) == IF loaded.outcome = "returned" THEN <<loaded.results>> ELSE <<>>

all_results(loaded) == <<>>

\* a call of the loader on an analyzer that was loaded before: self.results
\* is assigned when the call returns and stays what it was when it raises
LoadedAfter(loaded, again) ==
    IF again.outcome = "returned" THEN again
    ELSE [outcome |-> again.outcome, results |-> loaded.results]

load_results_again(kind, dir, loaded) ==
    LoadedAfter(loaded, LoadFrom(kind, dir, 1, all_results(loaded)))

\* the loader is called a second time, the directory being as it was
LoadResultsAgain ==
    /\ loadKind \in Kinds
    /\ loadOut # NotLoaded
    /\ loadAgain = NotLoaded
    /\ loadAgain' = load_results_again(loadKind, loadDir, loadOut)
    /\ UNCHANGED <<loadKind, loadDir, loadOut, statsOut>>

LoadNext ==
    \/ NewAnalyzer
    \/ AddFile
    \/ LoadResults
    \/ LoadResultsAgain
    \/ GenerateDescriptiveStats

-----------------------------------------------------------------------------
(* excel_report.py: load_data and generate_excel_report *)

\* load_data: the frames of the CSV files of a run directory, by file stem;
\* a file named summary.csv is left out, and so is a file pandas cannot read
load_data(files) ==
    [p \in {q \in DOMAIN files : q # "summary" /\ files[q].ok} |-> files[p].rows]

\* sorted(test_patterns), for the stems of the model
PatternOrder == <<"summary", "uniform", "zipf">>

\* the same on the policy alone
SamePolicy(r1, r2) == r1.Policy = r2.Policy

\* r1['Policy'] == r2['Policy'] and r1['CacheSize'] == r2['CacheSize']
SameKey(r1, r2) == r1.Policy = r2.Policy /\ r1.CacheSize = r2.CacheSize

\* the dict appended to summary_data
SummaryRow(pattern, r1, r2) ==
    [TestPattern |-> pattern,
     Policy |-> r1.Policy,
     CacheSize |-> r1.CacheSize,
     Run1HitRatio |-> r1.HitRatio,
     Run2HitRatio |-> r2.HitRatio,
     Difference |-> r2.HitRatio - r1.HitRatio]

\* the inner loop: the rows of run 2 joined to one row of run 1
RECURSIVE JoinOne(_, _, _)
JoinOne(pattern, r1, rows2) ==
    IF rows2 = <<>> THEN <<>>
    ELSE (IF SameKey(r1, Head(rows2))
          THEN <<SummaryRow(pattern, r1, Head(rows2))>>
          ELSE <<>>) \o JoinOne(pattern, r1, Tail(rows2))

\* the outer loop over the rows of run 1
RECURSIVE JoinRows(_, _, _)
JoinRows(pattern, rows1, rows2) ==
    IF rows1 = <<>> THEN <<>>
    ELSE JoinOne(pattern, Head(rows1), rows2) \o JoinRows(pattern, Tail(rows1), rows2)

\* summary_data after the loop over sorted(test_patterns), from pattern k on
RECURSIVE SummaryFrom(_, _, _)
SummaryFrom(k, run1_data, run2_data) ==
    IF k > Len(PatternOrder) THEN <<>>
    ELSE (IF PatternOrder[k] \in DOMAIN run1_data /\ PatternOrder[k] \in DOMAIN run2_data
          THEN JoinRows(PatternOrder[k], run1_data[PatternOrder[k]], run2_data[PatternOrder[k]])
          ELSE <<>>) \o SummaryFrom(k + 1, run1_data, run2_data)

summary_data(files1, files2) == SummaryFrom(1, load_data(files1), load_data(files2))

MaxCsvRows == 3

CsvRow(policy, size, ratio) == [Policy |-> policy, CacheSize |-> size, HitRatio |-> ratio]

CsvRows ==
    { CsvRow("lru", 1000, 70), CsvRow("lru", 1000, 80),
      CsvRow("lfu", 1000, 75), CsvRow("lru", 5000, 90) }

Stems == {"uniform", "zipf", "summary"}

RowCount(files) ==
    LET RECURSIVE Sum(_)
        Sum(S) == IF S = {} THEN 0
                  ELSE LET p == CHOOSE q \in S : TRUE
                       IN Len(files[p].rows) + Sum(S \ {p})
    IN Sum(DOMAIN files)

ExcelInit ==
    /\ runFiles = <<<<>>, <<>>>>
    /\ summary = <<>>
    /\ excelPc = "input"

\* a run directory gets a CSV file: one pandas reads, or one it rejects
WriteCsv ==
    /\ excelPc = "input"
    /\ \E r \in 1..2, p \in Stems, ok \in BOOLEAN :
          /\ p \notin DOMAIN runFiles[r]
          /\ (p = "summary" => r = 1 /\ ok)
          /\ runFiles' = [runFiles EXCEPT ![r] = @ @@ (p :> [ok |-> ok, rows |-> <<>>])]
    /\ UNCHANGED <<summary, excelPc>>

\* a CSV file gets one more row
WriteCsvRow ==
    /\ excelPc = "input"
    /\ RowCount(runFiles[1]) + RowCount(runFiles[2]) < MaxCsvRows
    /\ \E r \in 1..2, row \in CsvRows :
          \E p \in DOMAIN runFiles[r] :
              /\ runFiles[r][p].ok
              /\ runFiles' = [runFiles EXCEPT ![r][p].rows = Append(@, row)]
    /\ UNCHANGED <<summary, excelPc>>

\* generate_excel_report(), as far as the Summary sheet
GenerateExcelReport ==
    /\ excelPc = "input"
    /\ summary' = summary_data(runFiles[1], runFiles[2])
    /\ excelPc' = "done"
    /\ UNCHANGED runFiles

ExcelNext == WriteCsv \/ WriteCsvRow \/ GenerateExcelReport

-----------------------------------------------------------------------------
(* analyze_all.py: ComprehensiveAnalyzer and main *)

Stages == <<"benchmark", "hitratio", "concurrency", "pprof">>
StageSet == {Stages[i] : i \in 1..Len(Stages)}
ReportKeys == StageSet \cup {"summary"}

\* a result directory of the base directory: absent, or a listing of files
NoDir == [exists |-> FALSE, files |-> <<>>]
Dir(files) == [exists |-> TRUE, files |-> files]

\* the result directories a run is started on
RunDirs(kind) ==
    CASE kind = "benchmark" ->
            { NoDir, Dir(<<>>),
              Dir(<<File(BenchDated, TRUE, <<PlainLine>>)>>),
              Dir(<<File(BenchDated, TRUE, <<SizedLine, PlainLine>>)>>),
              Dir(<<File(BenchDated, TRUE, <<<<W("PASS")>>>>)>>) }
      [] kind = "hitratio" ->
            { NoDir, Dir(<<>>),
              Dir(<<File(HitDated, TRUE, SectionText(ResolvedSec))>>),
              Dir(<<File(HitDated, TRUE, SectionText(UnresolvedSec))>>),
              Dir(<<File(HitDated, TRUE, <<W("PASS"), Ws("\n")>>)>>) }
      [] kind = "concurrency" ->
            { NoDir, Dir(<<>>),
              Dir(<<File(ConcDated, TRUE, <<Payload>>)>>),
              Dir(<<File(ConcDated, TRUE, <<JInvalid>>)>>) }

\* the pprof directory: absent, without a profile file, or with profile files
PprofDirs == {"missing", "no profiles", "profiles"}

\* self.X_analyzer is None
NoAnalyzer == [created |-> FALSE, results |-> NotLoaded]

RunInit ==
    /\ runPc = "main"
    /\ runSkip = [k \in StageSet |-> FALSE]
    /\ runDir = [k \in Kinds |-> NoDir]
    /\ runPprof = "missing"
    /\ analyzer = [k \in StageSet |-> NoAnalyzer]
    /\ report_paths = [k \in ReportKeys |-> FALSE]
    /\ runReport = [written |-> FALSE,
                    section |-> [k \in StageSet |-> FALSE],
                    conclusion |-> [k \in StageSet |-> FALSE]]

\* the stages of main with two of them exchanged
StageAfterExchanged(k) ==
    CASE k = "main" -> "benchmark"
      [] k = "benchmark" -> "concurrency"
      [] k = "concurrency" -> "hitratio"
      [] k = "hitratio" -> "pprof"
      [] k = "pprof" -> "report"

\* the stage after stage k in main
StageAfter(k) ==
    CASE k = "main" -> "benchmark"
      [] k = "benchmark" -> "hitratio"
      [] k = "hitratio" -> "concurrency"
      [] k = "concurrency" -> "pprof"
      [] k = "pprof" -> "report"

\* main up to the first stage: the arguments are parsed and the
\* ComprehensiveAnalyzer is built on the base directory
Main ==
    /\ runPc = "main"
    /\ \E skip \in [StageSet -> BOOLEAN], pp \in PprofDirs,
          b \in RunDirs("benchmark"), h \in RunDirs("hitratio"), c \in RunDirs("concurrency") :
          /\ runSkip' = skip
          /\ runPprof' = pp
          /\ runDir' = [k \in Kinds |-> CASE k = "benchmark" -> b
                                          [] k = "hitratio" -> h
                                          [] k = "concurrency" -> c]
    /\ runPc' = StageAfter("main")
    /\ UNCHANGED <<analyzer, report_paths, runReport>>

\* main: a stage whose --skip flag is given is not run
SkipStage ==
    /\ runPc \in StageSet
    /\ runSkip[runPc]
    /\ runPc' = StageAfter(runPc)
    /\ UNCHANGED <<runSkip, runDir, runPprof, analyzer, report_paths, runReport>>

\* run_benchmark_analysis / run_hitratio_analysis / run_concurrency_analysis:
\* the directory check, then load, statistics, plots and report in one try.
\* The plot and report steps write files; they end normally or raise.
RunAnalysis(kind) ==
    /\ runPc = kind
    /\ ~runSkip[kind]
    /\ runPc' = StageAfter(kind)
    /\ IF ~runDir[kind].exists
       THEN UNCHANGED <<analyzer, report_paths>>
       ELSE \E loaded \in {load_results(kind, runDir[kind].files)} :
               /\ analyzer' = [analyzer EXCEPT ![kind] =
                                  [created |-> TRUE,
                                   results |-> IF loaded.outcome = "returned"
                                               THEN loaded ELSE NotLoaded]]
               /\ IF generate_descriptive_stats(kind, loaded).outcome = "returned"
                  THEN \E written \in BOOLEAN :
                          report_paths' = [report_paths EXCEPT ![kind] = written]
                  ELSE UNCHANGED report_paths
    /\ UNCHANGED <<runSkip, runDir, runPprof, runReport>>

RunBenchmarkAnalysis == RunAnalysis("benchmark")
RunHitratioAnalysis == RunAnalysis("hitratio")
RunConcurrencyAnalysis == RunAnalysis("concurrency")

\* self.results of the PprofAnalyzer once analyze_profiles has set it
ProfilesAnalyzed == [outcome |-> "returned", results |-> <<>>]

\* run_pprof_analysis: without a profile file analyze_profiles returns before
\* it sets self.results, and generate_summary_report raises on that; with
\* profile files the analysis or the report ends normally or raises
RunPprofAnalysis ==
    /\ runPc = "pprof"
    /\ ~runSkip["pprof"]
    /\ runPc' = StageAfter("pprof")
    /\ CASE runPprof = "missing" -> UNCHANGED <<analyzer, report_paths>>
         [] runPprof = "no profiles" ->
              /\ analyzer' = [analyzer EXCEPT !["pprof"] = [created |-> TRUE,
                                                            results |-> NotLoaded]]
              /\ UNCHANGED report_paths
         [] runPprof = "profiles" ->
              \E analyzed \in BOOLEAN, written \in BOOLEAN :
                  /\ analyzer' = [analyzer EXCEPT !["pprof"] =
                                     [created |-> TRUE,
                                      results |-> IF analyzed THEN ProfilesAnalyzed
                                                  ELSE NotLoaded]]
                  /\ report_paths' = [report_paths EXCEPT !["pprof"] = analyzed /\ written]
    /\ UNCHANGED <<runSkip, runDir, runPprof, runReport>>

\* self.X_analyzer and self.X_analyzer.results is not None
HasResults(an, k) == an[k].created /\ an[k].results.outcome = "returned"

\* the columns a sheet of the Excel summary is pivoted on
PivotColumns(kind) ==
    CASE kind = "benchmark" -> {"name", "ValueSize", "ns_per_op", "bytes_per_op", "allocs_per_op"}
      [] kind = "hitratio" -> {"policy", "distribution", "hit_ratio"}
      [] kind = "concurrency" -> {"cache_config", "concurrency", "latency_mean",
                                  "throughput", "success_rate"}

\* the ways create_excel_summary can end.  pivot_table raises KeyError on a
\* column the frame lacks; the workbook cannot be saved without a sheet; a
\* frame whose rows all lack an index or column key pivots to an empty
\* table, whose writing depends on the pandas release
create_excel_summary(an) ==
    LET live == {k \in Kinds : HasResults(an, k)}
        lacking == {k \in live : \E col \in PivotColumns(k) :
                                     ~HasColumn(k, an[k].results.results, col)}
        blank == {k \in live :
                     \A i \in 1..Len(an[k].results.results) :
                         \E col \in PivotColumns(k) :
                             IsNull(k, an[k].results.results[i], col)}
    IN IF live = {} THEN {"IndexError"}
       ELSE IF lacking # {} THEN {"KeyError"}
       ELSE IF blank # {} THEN {"returned", "raised"}
       ELSE {"returned"}

\* generate_comprehensive_report: the report files are written, then the
\* Excel summary, and report_paths['summary'] is set last
GenerateComprehensiveReport ==
    /\ runPc = "report"
    /\ runReport' = [written |-> TRUE,
                     section |-> [k \in StageSet |-> report_paths[k]],
                     conclusion |-> [k \in StageSet |-> HasResults(analyzer, k)]]
    /\ \E end \in create_excel_summary(analyzer) :
          IF end = "returned"
          THEN /\ report_paths' = [report_paths EXCEPT !["summary"] = TRUE]
               /\ runPc' = "done"
          ELSE /\ UNCHANGED report_paths
               /\ runPc' = "raised"
    /\ UNCHANGED <<runSkip, runDir, runPprof, analyzer>>

RunNext ==
    \/ Main
    \/ SkipStage
    \/ RunBenchmarkAnalysis
    \/ RunHitratioAnalysis
    \/ RunConcurrencyAnalysis
    \/ RunPprofAnalysis
    \/ GenerateComprehensiveReport

-----------------------------------------------------------------------------
(* PprofAnalyzer: extract_profile_metadata and the table of extract_top_functions *)

\* the words of the profile names that hold "<key>" once in lower case
WordsWith(key) ==
    CASE key = "cpu" -> {"cpu", "CPU"}
      [] key = "heap" -> {"heap"}
      [] key = "mem" -> {"mem", "memory"}
      [] OTHER -> {}

\* '<key>' in filename.lower()
NameHas(filename, key) ==
    \E i \in 1..Len(filename) : filename[i].t = "w" /\ filename[i].s \in WordsWith(key)

ProfileTypeOf(filename) ==
    CASE NameHas(filename, "cpu") -> "cpu"
      [] NameHas(filename, "heap") \/ NameHas(filename, "mem") -> "heap"
      [] NameHas(filename, "block") -> "block"
      [] NameHas(filename, "mutex") -> "mutex"
      [] NameHas(filename, "goroutine") -> "goroutine"
      [] OTHER -> "unknown"

\* a run of letters
IsLetters(tok) == tok.t = "w" /\ tok.s # "_"

\* re.search(r'([a-zA-Z]+)_\d{8}', filename): the index of group 1, 0 when no match
TestNameAt(filename) ==
    FirstIn({i \in 1..Len(filename) :
               /\ IsLetters(filename[i])
               /\ At(filename, i + 1) = W("_")
               /\ IsNumTok(At(filename, i + 2))
               /\ Len(At(filename, i + 2).d) >= 8})

\* re.search(r'(\d{8})_?(\d{6})?', filename): the index of the digits of group
\* 1, 0 when no match
ProfileDateAt(filename) ==
    FirstIn({i \in 1..Len(filename) : IsNumTok(filename[i]) /\ Len(filename[i].d) >= 8})

\* group 2 of a match at i: six digits right after the eight, or after one
\* underscore; '000000' without them
ProfileTimeAt(filename, i) ==
    IF Len(filename[i].d) >= 14 THEN SubSeq(filename[i].d, 9, 14)
    ELSE IF /\ Len(filename[i].d) = 8
            /\ At(filename, i + 1) = W("_")
            /\ IsNumTok(At(filename, i + 2))
            /\ Len(At(filename, i + 2).d) >= 6
         THEN SubSeq(filename[i + 2].d, 1, 6)
         ELSE <<0, 0, 0, 0, 0, 0>>

MetadataAt(filename, t, d) ==
    [profile_type |-> ProfileTypeOf(filename),
     test_name |-> IF t > 0 THEN filename[t].s ELSE "unknown",
     date |-> IF d > 0 THEN SubSeq(filename[d].d, 1, 8) ELSE NoDate,
     time |-> IF d > 0 THEN ProfileTimeAt(filename, d) ELSE <<0, 0, 0, 0, 0, 0>>]

extract_profile_metadata(filename) ==
    MetadataAt(filename, TestNameAt(filename), ProfileDateAt(filename))

\* str.strip() of a line
RECURSIVE LStrip(_)
LStrip(line) == IF line # <<>> /\ IsWsTok(Head(line)) THEN LStrip(Tail(line)) ELSE line

RECURSIVE RStrip(_)
RStrip(line) ==
    IF line # <<>> /\ IsWsTok(line[Len(line)]) THEN RStrip(SubSeq(line, 1, Len(line) - 1))
    ELSE line

Strip(line) == RStrip(LStrip(line))

\* result.stdout.strip().split('\n') on a text kept line by line: the blank
\* lines at both ends go, the first line loses the white space it starts with
\* and the last line the white space it ends with; a text of blank lines is ['']
RECURSIVE DropBlankHead(_)
DropBlankHead(lines) ==
    IF lines # <<>> /\ Strip(Head(lines)) = <<>> THEN DropBlankHead(Tail(lines)) ELSE lines

RECURSIVE DropBlankEnd(_)
DropBlankEnd(lines) ==
    IF lines # <<>> /\ Strip(lines[Len(lines)]) = <<>>
    THEN DropBlankEnd(SubSeq(lines, 1, Len(lines) - 1))
    ELSE lines

StripEnds(lines) ==
    IF lines = <<>> THEN <<<<>>>>
    ELSE [i \in 1..Len(lines) |->
            IF i = 1 /\ i = Len(lines) THEN Strip(lines[i])
            ELSE IF i = 1 THEN LStrip(lines[i])
            ELSE IF i = Len(lines) THEN RStrip(lines[i])
            ELSE lines[i]]

\* the one element of a set of one element
Only(S) == CHOOSE x \in S : TRUE

StdoutLines(stdout) ==
    Only({StripEnds(lines) : lines \in {DropBlankEnd(DropBlankHead(stdout))}})

\* the words of the tables that hold "<key>"
TableWordsWith(key) ==
    CASE key = "flat" -> {"flat", "flatten"}
      [] key = "cum" -> {"cum", "accumulate"}

\* '<key>' in line
LineHas(line, key) ==
    \E i \in 1..Len(line) : line[i].t = "w" /\ line[i].s \in TableWordsWith(key)

\* 'flat' in line and 'cum' in line and '%' in line
IsHeader(line) == LineHas(line, "flat") /\ LineHas(line, "cum") /\ Contains(line, Lit("%"))

\* header_idx, 0-based as in the code: -1 when no line is a header
HeaderIdx(lines) == FirstIn({i \in 1..Len(lines) : IsHeader(lines[i])}) - 1

\* the k-th least of a set of indices
Nth(S, k) == CHOOSE i \in S : Cardinality({j \in S : j < i}) = k - 1

\* the indices where a run of tokens that satisfy P starts
RunStarts(line, P(_)) ==
    {i \in 1..Len(line) : P(line[i]) /\ (i = 1 \/ ~P(line[i - 1]))}

NotWs(tok) == ~IsWsTok(tok)

\* the runs that start at the indices of `starts`, in their order
PartsAt(line, starts) ==
    [k \in 1..Cardinality(starts) |->
        SubSeq(line, Nth(starts, k), RunEnd(line, Nth(starts, k), NotWs))]

\* str.split(): the runs of tokens between white space
SplitWs(line) == PartsAt(line, RunStarts(line, NotWs))

\* the digits of the tokens i..e of a part, in a row
RECURSIVE DigitsFrom(_, _, _)
DigitsFrom(part, i, e) == IF i > e THEN <<>> ELSE part[i].d \o DigitsFrom(part, i + 1, e)

\* the token of the result at index i of a part: a run of digits, or the token
JoinedAt(part, i) ==
    IF IsNumTok(part[i]) THEN Num(DigitsFrom(part, i, RunEnd(part, i, IsNumTok))) ELSE part[i]

JoinedFrom(part, keep) == [k \in 1..Cardinality(keep) |-> JoinedAt(part, Nth(keep, k))]

\* digits that come to stand side by side are one run of digits
Joined(part) ==
    JoinedFrom(part, RunStarts(part, IsNumTok) \cup {i \in 1..Len(part) : ~IsNumTok(part[i])})

\* part.replace('%', '')
WithoutPercent(part) == Joined(SelectSeq(part, LAMBDA t : t # Lit("%")))

\* float(text) of the texts of the tables: <digits>, <digits>.<digits>,
\* <digits>. and .<digits> are numbers, every other text raises ValueError
PercentOf(part) == FloatRun(WithoutPercent(part))

\* ' '.join(parts)
RECURSIVE JoinParts(_)
JoinParts(parts) ==
    IF parts = <<>> THEN <<>>
    ELSE IF Len(parts) = 1 THEN parts[1]
    ELSE parts[1] \o <<Ws(" ")>> \o JoinParts(Tail(parts))

\* the same with the fifth part alone as the function
TopRecordFifth(parts) ==
    [flat_pct |-> PercentOf(parts[1]).v,
     flat_val |-> parts[2],
     cum_pct |-> PercentOf(parts[3]).v,
     cum_val |-> parts[4],
     function |-> parts[5]]

\* the record of a data line split into at least five parts
TopRecord(parts) ==
    [flat_pct |-> PercentOf(parts[1]).v,
     flat_val |-> parts[2],
     cum_pct |-> PercentOf(parts[3]).v,
     cum_val |-> parts[4],
     function |-> JoinParts(SubSeq(parts, 5, Len(parts)))]

\* a data line whose float() raises
RowRaises(parts) == Len(parts) >= 5 /\ (~PercentOf(parts[1]).ok \/ ~PercentOf(parts[3]).ok)

\* data, from the lines of at least five parts
TopData(rows) == [i \in 1..Len(rows) |-> TopRecord(rows[i])]

AtLeastFive(parts) == Len(parts) >= 5

\* the loop over lines[header_idx+1:], a list of the parts of each line: the
\* first line whose float() raises ends it with ValueError
TopRows(rows) ==
    IF \E i \in 1..Len(rows) : RowRaises(rows[i])
    THEN [raised |-> TRUE, data |-> <<>>]
    ELSE [raised |-> FALSE, data |-> TopData(SelectSeq(rows, AtLeastFive))]

PartsOf(lines) == [i \in 1..Len(lines) |-> SplitWs(lines[i])]

\* the parsing of the output of `go tool pprof -top`, the header at h
TopFrom(lines, h) ==
    IF h = -1 \/ h + 1 >= Len(lines) THEN [raised |-> FALSE, data |-> <<>>]
    ELSE Only({TopRows(rows) : rows \in {PartsOf(SubSeq(lines, h + 2, Len(lines)))}})

TopOf(lines) == Only({TopFrom(lines, h) : h \in {HeaderIdx(lines)}})

\* extract_top_functions once the tool has printed stdout
top_functions_of(stdout) == Only({TopOf(lines) : lines \in {StdoutLines(stdout)}})

-----------------------------------------------------------------------------
(* Profile directories: the tool, the profile files and what the tool prints *)

MaxProfiles == 2

\* a percentage as the table writes it and the number it stands for
Pct(text, whole, frac) == [text |-> text, v |-> [whole |-> whole, frac |-> frac]]

P4094 == Pct(<<Num(<<4, 0>>), Lit("."), Num(<<9, 4>>), Lit("%")>>, 40, <<9, 4>>)
P4803 == Pct(<<Num(<<4, 8>>), Lit("."), Num(<<0, 3>>), Lit("%")>>, 48, <<0, 3>>)
P1250 == Pct(<<Num(<<1, 2>>), Lit("."), Num(<<5, 0>>), Lit("%")>>, 12, <<5>>)
P30 == Pct(<<Num(<<3, 0>>), Lit("%")>>, 30, <<>>)

V52s == <<Num(<<5>>), Lit("."), Num(<<2>>), W("s")>>
V61s == <<Num(<<6>>), Lit("."), Num(<<1>>), W("s")>>
V15s == <<Num(<<1>>), Lit("."), Num(<<5>>), W("s")>>
V36s == <<Num(<<3>>), Lit("."), Num(<<6>>), W("s")>>

Mallocgc == <<W("runtime"), Lit("."), W("mallocgc")>>
CacheGet == <<W("main"), Lit("."), Lit("(*"), W("Cache"), Lit(")"), Lit("."), W("Get")>>
Inline == <<Lit("("), W("inline"), Lit(")")>>

\* a line of the table: what it is, its text, whether it holds 'flat', 'cum'
\* and '%', and for a data row the record it stands for
TableLine(kind, text, header, record) ==
    [kind |-> kind, text |-> text, header |-> header, record |-> record]

NoRecord ==
    [flat_pct |-> [whole |-> 0, frac |-> <<>>], flat_val |-> <<>>,
     cum_pct |-> [whole |-> 0, frac |-> <<>>], cum_val |-> <<>>, function |-> <<>>]

\* a data row: its columns after `lead`, `gap` between them
DataRow(lead, gap, flat, fval, cum, cval, fn, rest, header, name) ==
    TableLine("row",
              lead \o flat.text \o gap \o fval \o gap \o cum.text \o gap \o cval \o gap \o fn \o rest,
              header,
              [flat_pct |-> flat.v, flat_val |-> fval, cum_pct |-> cum.v, cum_val |-> cval,
               function |-> name])

\* Showing nodes accounting for 12.5s, 98.5% of 12.7s total
ShowingLine ==
    TableLine("note",
              <<W("Showing"), Ws(" "), W("nodes"), Ws(" "), Num(<<9, 8>>), Lit("."), Num(<<5>>),
                Lit("%"), Ws(" "), W("of"), Ws(" "), W("total")>>,
              FALSE, NoRecord)

\* Dropped 20 nodes (cum <= 0.06s)
DroppedLine ==
    TableLine("note",
              <<W("Dropped"), Ws(" "), Num(<<2, 0>>), Ws(" "), W("nodes"), Ws(" "), Lit("("),
                W("cum"), Ws(" "), Lit("<="), Ws(" "), Num(<<0>>), Lit("."), Num(<<0, 6>>),
                W("s"), Lit(")")>>,
              FALSE, NoRecord)

\*      flat%   flat   cum%    cum
HeaderLine ==
    TableLine("header",
              <<Ws("      "), W("flat"), Lit("%"), Ws("   "), W("flat"), Ws("   "), W("cum"),
                Lit("%"), Ws("    "), W("cum")>>,
              TRUE, NoRecord)

\* 40.94% 5.2s 48.03% 6.1s runtime.mallocgc
MallocRow ==
    DataRow(<<>>, <<Ws(" ")>>, P4094, V52s, P4803, V61s, Mallocgc, <<>>, FALSE, Mallocgc)

\*   12.50%  1.5s  30%  3.6s  main.(*Cache).Get  (inline)
GetRow ==
    DataRow(<<Ws("  ")>>, <<Ws("  ")>>, P1250, V15s, P30, V36s, CacheGet,
            <<Ws("  ")>> \o Inline \o <<Ws(" ")>>, FALSE, CacheGet \o <<Ws(" ")>> \o Inline)

\* 30% 3.6s 30% 3.6s accumulate flat
AccumulateRow ==
    DataRow(<<>>, <<Ws(" ")>>, P30, V36s, P30, V36s, <<W("accumulate")>>,
            <<Ws(" "), W("flat")>>, TRUE, <<W("accumulate"), Ws(" "), W("flat")>>)

\* 12.50% 1.5s 30% 3.6s
ShortRow ==
    TableLine("short", P1250.text \o <<Ws(" ")>> \o V15s \o <<Ws(" ")>> \o P30.text
                       \o <<Ws(" ")>> \o V36s, FALSE, NoRecord)

BlankRow == TableLine("blank", <<Ws("   ")>>, FALSE, NoRecord)

\* a row as `go tool pprof -top` prints it, flat flat% sum% cum cum% name:
\* 5.2s 40.94% 40.94% 6.1s 48.03% runtime.mallocgc
SixColumnRow ==
    TableLine("bad", V52s \o <<Ws(" ")>> \o P4094.text \o <<Ws(" ")>> \o P4094.text
                     \o <<Ws(" ")>> \o V61s \o <<Ws(" ")>> \o P4803.text \o <<Ws("  ")>>
                     \o Mallocgc, FALSE, NoRecord)

\* the tables the tool prints
Tables ==
    { <<ShowingLine, DroppedLine, HeaderLine, MallocRow, GetRow>>,
      <<HeaderLine, MallocRow, ShortRow, BlankRow, GetRow, BlankRow>>,
      <<ShowingLine, DroppedLine>>,
      <<ShowingLine, HeaderLine>>,
      <<HeaderLine, GetRow, SixColumnRow, MallocRow>>,
      <<AccumulateRow, MallocRow>>,
      <<>> }

\* the text of a table
TextOf(table) == [i \in 1..Len(table) |-> table[i].text]

\* how an invocation of the tool on a profile ends, and what it prints
ToolRun(end, table) == [end |-> end, table |-> table]

\* a file of the input directory: its name, how `-flamegraph` ends on it and
\* how `-top` ends on it
ProfileFile(name, flame, top) == [name |-> name, flame |-> flame, top |-> top]

\* cpu_get_20250603_101500.pprof, heap.pb.gz
CpuProfile ==
    <<W("cpu"), W("_"), W("get"), W("_"), Num(D20250603), W("_"), Num(<<1, 0, 1, 5, 0, 0>>),
      Lit("."), W("pprof")>>
HeapProfile == <<W("heap"), Lit("."), W("pb"), Lit("."), W("gz")>>

ProfileNames == {CpuProfile, HeapProfile}

ToolRuns ==
    [flame : {"exit 0"}, top : {ToolRun("exit 0", t) : t \in Tables}]
    \cup {[flame |-> "exit 1", top |-> ToolRun("exit 1", <<>>)],
          [flame |-> "exit 1", top |-> ToolRun("exit 0", <<AccumulateRow, MallocRow>>)],
          [flame |-> "hangs", top |-> ToolRun("exit 1", <<>>)],
          [flame |-> "exit 0", top |-> ToolRun("hangs", <<>>)]}

ProfileFiles ==
    {ProfileFile(n, r.flame, r.top) : n \in ProfileNames, r \in ToolRuns}
    \cup {ProfileFile(NotesMd, "exit 1", ToolRun("exit 1", <<>>))}

-----------------------------------------------------------------------------
(* PprofAnalyzer.analyze_profiles *)

\* filename.endswith('.pprof') or filename.endswith('.pb.gz')
IsProfile(name) ==
    \/ EndsWithExt(name, "pprof")
    \/ (Len(name) >= 4 /\ SubSeq(name, Len(name) - 3, Len(name))
                            = <<Lit("."), W("pb"), Lit("."), W("gz")>>)

\* os.path.splitext(basename)[0]
SplitextRoot(name) ==
    IF Len(name) >= 3 /\ name[Len(name) - 1] = Lit(".") THEN SubSeq(name, 1, Len(name) - 2)
    ELSE name

SvgPath(name) == SplitextRoot(name) \o <<Lit("."), W("svg")>>

\* the same without the check of the exit status
generate_flamegraphUnchecked(tool, f) == tool = "present" /\ f.flame # "hangs"

\* generate_flamegraph: False without the tool and when the tool exits with
\* an error (CalledProcessError is a SubprocessError)
generate_flamegraph(tool, f) == tool = "present" /\ f.flame = "exit 0"

NoTop == [raised |-> FALSE, data |-> <<>>]

\* extract_top_functions: an empty frame without the tool and when the tool
\* exits with an error
extract_top_functions(tool, f) ==
    IF tool = "present" /\ f.top.end = "exit 0" THEN top_functions_of(TextOf(f.top.table))
    ELSE NoTop

\* a value that can be None: <<>> is None, <<v>> is the value v
Nothing == <<>>
Just(v) == <<v>>

\* profile_result (without 'path', the file name after the input directory)
ProfileResult(f, flamegraph_path, top) ==
    [filename |-> f.name,
     metadata |-> extract_profile_metadata(f.name),
     flamegraph_path |-> flamegraph_path,
     top_functions |-> IF top.data = <<>> THEN Nothing ELSE Just(top.data)]

\* results after one more profile
WithProfile(results, f, top, res) ==
    [profiles |-> Append(results.profiles, res),
     top_functions |-> IF top.data = <<>> THEN results.top_functions
                       ELSE [n \in DOMAIN results.top_functions \cup {f.name} |->
                               IF n = f.name THEN top.data ELSE results.top_functions[n]]]

NoProfiles == [profiles |-> <<>>, top_functions |-> <<>>]

\* profile_files
ProfilesIn(dir) == SelectSeq(dir, LAMBDA f : IsProfile(f.name))

PprofInit ==
    /\ pprofTool = "absent"
    /\ pprofDir = <<>>
    /\ pprofPc = "input"
    /\ pprofAt = 0
    /\ pprofFlame = Nothing
    /\ pprofOut = NoProfiles
    /\ pprofSelf = Nothing

\* go is installed on the machine
InstallGo ==
    /\ pprofPc = "input"
    /\ pprofTool = "absent"
    /\ pprofDir = <<>>
    /\ pprofTool' = "present"
    /\ UNCHANGED <<pprofDir, pprofPc, pprofAt, pprofFlame, pprofOut, pprofSelf>>

\* the input directory gets one more file
WriteProfile ==
    /\ pprofPc = "input"
    /\ Len(pprofDir) < MaxProfiles
    /\ \E f \in ProfileFiles :
          /\ \A i \in 1..Len(pprofDir) : pprofDir[i].name # f.name
          /\ pprofDir' = Append(pprofDir, f)
    /\ UNCHANGED <<pprofTool, pprofPc, pprofAt, pprofFlame, pprofOut, pprofSelf>>

\* analyze_profiles up to its loop: without a profile file it returns the
\* empty results and leaves self.results as it is
AnalyzeProfiles ==
    /\ pprofPc = "input"
    /\ pprofOut' = NoProfiles
    /\ IF ProfilesIn(pprofDir) = <<>>
       THEN pprofPc' = "returned" /\ pprofAt' = 0
       ELSE pprofPc' = "loop" /\ pprofAt' = 1
    /\ UNCHANGED <<pprofTool, pprofDir, pprofFlame, pprofSelf>>

\* the profile file the loop is at
ProfileAt == ProfilesIn(pprofDir)[pprofAt]

\* the loop takes the next profile, builds its profile_result and calls
\* generate_flamegraph
GenerateFlamegraph ==
    /\ pprofPc = "loop"
    /\ pprofAt <= Len(ProfilesIn(pprofDir))
    /\ pprofFlame' = Nothing
    /\ pprofPc' = "flamegraph"
    /\ UNCHANGED <<pprofTool, pprofDir, pprofAt, pprofOut, pprofSelf>>

\* generate_flamegraph returns, at once without the tool, else when
\* subprocess.run comes back: it is called without a timeout, so that an
\* invocation that hangs never comes back.  Then extract_top_functions is called
FlamegraphReturns ==
    /\ pprofPc = "flamegraph"
    /\ ~(pprofTool = "present" /\ ProfileAt.flame = "hangs")
    /\ pprofFlame' = IF generate_flamegraph(pprofTool, ProfileAt)
                      THEN Just(SvgPath(ProfileAt.name)) ELSE Nothing
    /\ pprofPc' = "top"
    /\ UNCHANGED <<pprofTool, pprofDir, pprofAt, pprofOut, pprofSelf>>

\* subprocess.run of extract_top_functions comes back (or the tool is absent
\* and it was not called)
TopReturns ==
    /\ pprofPc = "top"
    /\ ~(pprofTool = "present" /\ ProfileAt.top.end = "hangs")
    /\ pprofPc' = "parse"
    /\ UNCHANGED <<pprofTool, pprofDir, pprofAt, pprofFlame, pprofOut, pprofSelf>>

\* the rest of extract_top_functions and of the body of the loop: the
\* ValueError of a data line leaves analyze_profiles, else the profile gets
\* its entry
ParsedTop(f, top) ==
    IF top.raised
    THEN pprofPc' = "raised" /\ UNCHANGED <<pprofAt, pprofOut>>
    ELSE /\ pprofOut' = WithProfile(pprofOut, f, top, ProfileResult(f, pprofFlame, top))
         /\ pprofAt' = pprofAt + 1
         /\ pprofPc' = "loop"

ParseTop ==
    /\ pprofPc = "parse"
    /\ \E f \in {ProfileAt} :
          \E top \in {extract_top_functions(pprofTool, f)} : ParsedTop(f, top)
    /\ UNCHANGED <<pprofTool, pprofDir, pprofFlame, pprofSelf>>

\* self.results = results; return results
ReturnProfiles ==
    /\ pprofPc = "loop"
    /\ pprofAt > Len(ProfilesIn(pprofDir))
    /\ pprofSelf' = Just(pprofOut)
    /\ pprofPc' = "returned"
    /\ UNCHANGED <<pprofTool, pprofDir, pprofAt, pprofFlame, pprofOut>>

PprofNext ==
    \/ InstallGo
    \/ WriteProfile
    \/ AnalyzeProfiles
    \/ GenerateFlamegraph
    \/ FlamegraphReturns
    \/ TopReturns
    \/ ParseTop
    \/ ReturnProfiles

-----------------------------------------------------------------------------
vars == <<benchVars, hitVars, vegVars, loadVars, excelVars, runVars, pprofVars>>

Init == BenchInit /\ HitInit /\ VegetaInit /\ LoadInit /\ ExcelInit /\ RunInit /\ PprofInit

BenchStep == BenchNext /\ UNCHANGED <<hitVars, vegVars, loadVars, excelVars, runVars, pprofVars>>
HitStep == HitNext /\ UNCHANGED <<benchVars, vegVars, loadVars, excelVars, runVars, pprofVars>>
VegetaStep == VegetaNext /\ UNCHANGED <<benchVars, hitVars, loadVars, excelVars, runVars, pprofVars>>
LoadStep == LoadNext /\ UNCHANGED <<benchVars, hitVars, vegVars, excelVars, runVars, pprofVars>>
ExcelStep == ExcelNext /\ UNCHANGED <<benchVars, hitVars, vegVars, loadVars, runVars, pprofVars>>
RunStep == RunNext /\ UNCHANGED <<benchVars, hitVars, vegVars, loadVars, excelVars, pprofVars>>
PprofStep == PprofNext /\ UNCHANGED <<benchVars, hitVars, vegVars, loadVars, excelVars, runVars>>

SpecBench == Init /\ [][BenchStep]_vars
SpecHit == Init /\ [][HitStep]_vars
SpecVegeta == Init /\ [][VegetaStep]_vars
SpecLoad == Init /\ [][LoadStep]_vars
SpecExcel == Init /\ [][ExcelStep]_vars
SpecRun == Init /\ [][RunStep]_vars
SpecPprof == Init /\ [][PprofStep]_vars

\* a call that can come back comes back
SpecPprofLive == Init /\ [][PprofStep]_vars /\ WF_pprofVars(FlamegraphReturns \/ TopReturns)

-----------------------------------------------------------------------------
(* Properties of the benchmark parser *)

\* the lines of the file that hold a sub-benchmark: a name with key=value segments
SubBenchmark(g) == g.segs # <<>> /\ g.cut = 0

\* Claim C1: a benchmark line whose name has /key=value segments gives a
\* record whose name is the base name and which holds every key with its value.
ClaimC1 ==
    benchPc = "parsed" =>
        \A i \in 1..Len(benchLines) : \A g \in BenchLineSpecs :
            (SubBenchmark(g) /\ benchLines[i] = Render(g)) =>
                \E r \in 1..Len(benchOut) :
                    /\ benchOut[r].name = <<Lit("Benchmark"), W(g.base)>>
                    /\ \A n \in 1..Len(g.segs) :
                          HasParam(benchOut[r], <<W(g.segs[n][1])>>, <<Num(g.segs[n][2])>>)

\* the lines the pattern of parse_benchmark_file describes: whole ones, the
\* name without segments
GrammarSpec(g) == g.segs = <<>> /\ g.cut = 0
GrammarLines == {Render(g) : g \in {h \in BenchLineSpecs : GrammarSpec(h)}}

\* the number a field of the written lines stands for
NumberOf(d) ==
    CASE d = <<8>> -> 8
      [] d = <<2>> -> 2
      [] d = <<0, 2>> -> 2
      [] d = D64 -> 64
      [] d = D250 -> 250
      [] d = D1000 -> 1000

\* the fraction of ns/op as a float keeps it: without trailing zeros
FractionOf(d) == IF d = <<5, 0>> THEN <<5>> ELSE d

\* the record a written line stands for
ExpectedRecord(g) ==
    [name |-> <<Lit("Benchmark"), W(g.base)>>,
     full_name |-> <<Lit("Benchmark"), W(g.base)>>,
     procs |-> IF g.procs = <<>> THEN 1 ELSE NumberOf(g.procs),
     iterations |-> NumberOf(g.iters),
     ns_per_op |-> [whole |-> NumberOf(g.nsw), frac |-> FractionOf(g.nsf)],
     bytes_per_op |-> IF g.bytes = <<>> THEN 0 ELSE NumberOf(g.bytes),
     allocs_per_op |-> IF g.allocs = <<>> THEN 0 ELSE NumberOf(g.allocs),
     params |-> <<>>]

SpecOf(l) == CHOOSE g \in BenchLineSpecs : Render(g) = l

ExpectedRecords(lines) ==
    [k \in 1..Len(lines) |-> ExpectedRecord(SpecOf(lines[k]))]

\* Claim C10: whatever the lines hold, parse_benchmark_file ends normally with
\* one record per line that matches the pattern, in the order of the lines;
\* every other line is passed over.
ClaimC10 ==
    benchPc = "parsed" =>
        benchOut = ExpectedRecords(SelectSeq(benchLines, LAMBDA l : l \in GrammarLines))

\* a parsed file with a damaged line between two lines that match, one of
\* them with a fraction
WitnessC10 ==
    /\ benchPc = "parsed"
    /\ Len(benchLines) = 3
    /\ benchLines[1] \in GrammarLines
    /\ benchLines[2] \notin GrammarLines
    /\ benchLines[3] \in GrammarLines
    /\ Len(benchOut) = 2
    /\ benchOut[2].ns_per_op.frac # <<>>

-----------------------------------------------------------------------------
(* Properties of the hit-ratio parser *)

\* the text between the nearest test-start marker before a block and the block
TrueContext(content, bm) == AfterLastRun(SubSeq(content, 1, bm.start - 1))

ContextFields(rec) ==
    <<rec.test_name, rec.distribution, rec.policy, rec.cache_size>>

FieldsIn(ctx) == <<NameOf(ctx), DistributionOf(ctx), PolicyOf(ctx), CacheSizeOf(ctx)>>

SameContexts(content, ms, records) ==
    \A k \in 1..Len(records) :
        ContextFields(records[k]) = FieldsIn(TrueContext(content, ms[k]))

\* Claim C2: the test name, distribution, policy and cache size of every
\* record are read from the text between the nearest test-start marker before
\* its block and the block, also when blocks share their total-operations
\* number or one number is a prefix of another.
ClaimC2 ==
    (hitPc = "parsed" /\ ~hitOut.raised) =>
        SameContexts(hitContent, hitratio_results(hitContent), hitOut.records)

-----------------------------------------------------------------------------
(* Properties of the loaders and of the statistics *)

\* the rows file i of the directory contributes when read on its own
OwnRows(kind, dir, i) ==
    IF IsCandidate(kind, dir[i].name) /\ FileStep(kind, dir[i], i).status = "append"
    THEN FileStep(kind, dir[i], i).rows
    ELSE <<>>

\* Claim C5: a loader raises the empty-dataset error exactly when no file
\* gives a usable record, the case of candidate files that all parse to zero
\* records included; a loader that returns has loaded at least one record.
ClaimC5 ==
    loadOut # NotLoaded =>
        /\ loadOut.outcome = "returned" => Len(loadOut.results) >= 1
        /\ loadOut.outcome = "ValueError: no results found" =>
              \A i \in 1..Len(loadDir) : OwnRows(loadKind, loadDir, i) = <<>>

\* Claim C6: a file that cannot be read or parsed costs a loader that file
\* only: the records of every other file are loaded.
ClaimC6 ==
    loadOut # NotLoaded =>
        \A i \in 1..Len(loadDir) :
            OwnRows(loadKind, loadDir, i) # <<>> =>
                /\ loadOut.outcome = "returned"
                /\ \E r \in 1..Len(loadOut.results) : loadOut.results[r].source_file = i

\* Claim C8: once the benchmark loader has returned at least one record,
\* generate_descriptive_stats returns, with or without a ValueSize column.
ClaimC8 ==
    (/\ loadKind = "benchmark"
     /\ loadOut.outcome = "returned"
     /\ Len(loadOut.results) >= 1
     /\ statsOut # NoStats) => statsOut.outcome = "returned"

\* Claim C9: every hit-ratio record is in exactly one group of
\* (distribution, policy, cache_size), so the sizes of the groups add up to
\* the number of records, unresolved records included.
ClaimC9 ==
    (loadKind = "hitratio" /\ statsOut.outcome = "returned") =>
        \A i \in 1..Len(loadOut.results) :
            Cardinality({g \in statsOut.groups : i \in g.rows}) = 1

-----------------------------------------------------------------------------
(* Properties of the Excel report *)

\* the stems whose CSV file both runs have and pandas reads
InBothRuns ==
    {p \in (DOMAIN runFiles[1]) \cap (DOMAIN runFiles[2]) :
        p # "summary" /\ runFiles[1][p].ok /\ runFiles[2][p].ok}

\* the inner join of the two runs on (pattern, Policy, CacheSize)
InnerJoin ==
    UNION {{[TestPattern |-> p,
             Policy |-> runFiles[1][p].rows[i].Policy,
             CacheSize |-> runFiles[1][p].rows[i].CacheSize,
             Run1HitRatio |-> runFiles[1][p].rows[i].HitRatio,
             Run2HitRatio |-> runFiles[2][p].rows[j].HitRatio,
             Difference |-> runFiles[2][p].rows[j].HitRatio - runFiles[1][p].rows[i].HitRatio] :
                <<i, j>> \in {ij \in (1..Len(runFiles[1][p].rows)) \X (1..Len(runFiles[2][p].rows)) :
                    /\ runFiles[1][p].rows[ij[1]].Policy = runFiles[2][p].rows[ij[2]].Policy
                    /\ runFiles[1][p].rows[ij[1]].CacheSize = runFiles[2][p].rows[ij[2]].CacheSize}} :
           p \in InBothRuns}

SummaryRows == {summary[k] : k \in 1..Len(summary)}

\* Claim C3: the Summary sheet is the inner join of the two runs on
\* (pattern, Policy, CacheSize): a row for a key only if the pattern is in
\* both runs and the key in both files, its Difference the hit ratio of run 2
\* less that of run 1; a key of one run alone gets no row and no zero.
ClaimC3 == excelPc = "done" => SummaryRows = InnerJoin

\* a report on a pattern of both runs with a key of both, the hit ratios
\* differing, and a key that only run 1 has
WitnessC3 ==
    /\ excelPc = "done"
    /\ \E k \in 1..Len(summary) : summary[k].Difference # 0
    /\ \E p \in InBothRuns : \E i \in 1..Len(runFiles[1][p].rows) :
          /\ \A j \in 1..Len(runFiles[2][p].rows) :
                runFiles[2][p].rows[j].CacheSize # runFiles[1][p].rows[i].CacheSize
          /\ \E j \in 1..Len(runFiles[2][p].rows) :
                runFiles[2][p].rows[j].Policy = runFiles[1][p].rows[i].Policy

SummaryKey(row) == <<row.TestPattern, row.Policy, row.CacheSize>>

\* Claim C4: the Summary sheet has exactly one row for every matched
\* (pattern, Policy, CacheSize), also when a run file lists a key twice.
ClaimC4 ==
    excelPc = "done" =>
        /\ \A k, n \in 1..Len(summary) :
              SummaryKey(summary[k]) = SummaryKey(summary[n]) => k = n
        /\ {SummaryKey(row) : row \in InnerJoin} = {SummaryKey(row) : row \in SummaryRows}

-----------------------------------------------------------------------------
(* Properties of the comprehensive run *)

\* Claim C7: whatever analyses failed, were skipped or had no input, also one
\* that loaded its records and failed later, the run reaches the end of
\* generate_comprehensive_report and report_paths['summary'] is set.
ClaimC7 ==
    runPc \in {"done", "raised"} => (runPc = "done" /\ report_paths["summary"])

-----------------------------------------------------------------------------
(* The records of the benchmark parser *)

\* the lines of the file the pattern matches, in file order
MatchedLines == SelectSeq(benchLines, LAMBDA l : BenchMatch(l).ok)

\* the line has no text `unit`
Without(line, unit) == ~Contains(line, Lit(unit))

\* Claim C11: every record of parse_benchmark_file has a number in procs,
\* iterations, bytes_per_op and allocs_per_op, a float in ns_per_op and its
\* two names; bytes_per_op and allocs_per_op are 0 for a line without B/op or
\* allocs/op, procs is 1 for a name without the -N suffix.
ClaimC11 ==
    benchPc = "parsed" =>
        /\ Len(benchOut) = Len(MatchedLines)
        /\ \A r \in 1..Len(benchOut) :
              /\ {"name", "full_name", "procs", "iterations", "ns_per_op",
                  "bytes_per_op", "allocs_per_op"} \subseteq DOMAIN benchOut[r]
              /\ benchOut[r].name # <<>> /\ benchOut[r].full_name # <<>>
              /\ benchOut[r].procs \in Nat
              /\ benchOut[r].iterations \in Nat
              /\ benchOut[r].ns_per_op.whole \in Nat
              /\ benchOut[r].bytes_per_op \in Nat
              /\ benchOut[r].allocs_per_op \in Nat
              /\ Without(MatchedLines[r], "B/op") => benchOut[r].bytes_per_op = 0
              /\ Without(MatchedLines[r], "allocs/op") => benchOut[r].allocs_per_op = 0
              /\ Without(MatchedLines[r], "-") => benchOut[r].procs = 1

\* a parsed file with a line that has neither suffix nor B/op, its allocs/op
\* kept, and a line with all the fields
WitnessC11 ==
    /\ benchPc = "parsed"
    /\ \E r \in 1..Len(benchOut) :
          /\ Without(MatchedLines[r], "-") /\ Without(MatchedLines[r], "B/op")
          /\ benchOut[r].procs = 1
          /\ benchOut[r].bytes_per_op = 0
          /\ benchOut[r].allocs_per_op = 2
    /\ \E r \in 1..Len(benchOut) :
          /\ benchOut[r].procs = 8
          /\ benchOut[r].bytes_per_op = 64
          /\ benchOut[r].allocs_per_op = 2

-----------------------------------------------------------------------------
(* The parameters and the metrics of the hit-ratio records *)

\* the test_context (hitratio_analyzer.py:98-99) of the k-th block of the transcript
ContextAt(k) == ContextOf(hitContent, hitratio_results(hitContent)[k])

\* the word w occurs in the text, in this very spelling
Occurs(ctx, w) == \E i \in 1..Len(ctx) : ctx[i] = W(w)

\* the value of the first keyword of the list `order` that occurs in the text
RECURSIVE FirstOf(_, _, _)
FirstOf(ctx, order, n) ==
    IF n > Len(order) THEN None
    ELSE IF Occurs(ctx, order[n][1]) THEN order[n][2]
    ELSE FirstOf(ctx, order, n + 1)

DistributionOrder ==
    <<(<<"ZipfLow", "zipf-1.07">>), (<<"ZipfHigh", "zipf-1.2">>), (<<"Uniform", "uniform">>)>>

PolicyOrder ==
    <<(<<"LRU", "lru">>), (<<"LFU", "lfu">>), (<<"FIFO", "fifo">>), (<<"Random", "random">>)>>

\* Claim C12: distribution and policy of a record are the value of the first
\* keyword, in the fixed order ZipfLow, ZipfHigh, Uniform and LRU, LFU, FIFO,
\* Random, that occurs in the record's test_context in this spelling, wherever
\* in the context the keywords stand.
ClaimC12 ==
    (hitPc = "parsed" /\ ~hitOut.raised) =>
        \A k \in 1..Len(hitOut.records) :
            /\ hitOut.records[k].distribution = FirstOf(ContextAt(k), DistributionOrder, 1)
            /\ hitOut.records[k].policy = FirstOf(ContextAt(k), PolicyOrder, 1)

\* the word a stands before the word b in the text
Before(ctx, a, b) == \E i, j \in 1..Len(ctx) : i < j /\ ctx[i] = W(a) /\ ctx[j] = W(b)

\* a record of a test whose name has Uniform before ZipfHigh and Random before
\* LRU, and a record of a test with the keywords in lower case
WitnessC12 ==
    /\ hitPc = "parsed" /\ ~hitOut.raised
    /\ \E k \in 1..Len(hitOut.records) :
          /\ hitOut.records[k].distribution = "zipf-1.2"
          /\ hitOut.records[k].policy = "lru"
          /\ Before(ContextAt(k), "Uniform", "ZipfHigh")
          /\ Before(ContextAt(k), "Random", "LRU")
    /\ \E k \in 1..Len(hitOut.records) :
          /\ hitOut.records[k].distribution = None
          /\ hitOut.records[k].policy = None
          /\ Occurs(ContextAt(k), "uniform") /\ Occurs(ContextAt(k), "lru")

\* the places of the text where Size<digits> stands
SizePlaces(ctx) == {i \in 1..Len(ctx) : ctx[i] = W("Size") /\ IsNumTok(At(ctx, i + 1))}

\* the number of the first Size<digits> of a text that has one
ExplicitSize(ctx) == IntOf(ctx[FirstIn(SizePlaces(ctx)) + 1].d)

\* the word w occurs in the text in some letter case
OccursAnyCase(ctx, w) == \E i \in 1..Len(ctx) : ctx[i].t = "w" /\ LowerOf(ctx[i].s) = w

\* the size of a context with the keywords looked up as Has(ctx, keyword) says
SizeBy(ctx, Has(_, _)) ==
    IF SizePlaces(ctx) # {} THEN ExplicitSize(ctx)
    ELSE IF Has(ctx, "small") THEN 1000
    ELSE IF Has(ctx, "large") THEN 100000
    ELSE 10000

\* Claim C13 as stated: cache_size is the number of Size<digits> if the
\* context has one, else 1000 if `small` occurs in this spelling, else 100000
\* if `large` occurs in this spelling, else 10000.
ClaimC13Stated ==
    (hitPc = "parsed" /\ ~hitOut.raised) =>
        \A k \in 1..Len(hitOut.records) :
            hitOut.records[k].cache_size = SizeBy(ContextAt(k), Occurs)

\* Claim C13, amended: cache_size is the number of Size<digits> if the context
\* has one, else 1000 if `small` occurs in any letter case, else 100000 if
\* `large` occurs in any letter case, else 10000.
ClaimC13 ==
    (hitPc = "parsed" /\ ~hitOut.raised) =>
        \A k \in 1..Len(hitOut.records) :
            hitOut.records[k].cache_size = SizeBy(ContextAt(k), OccursAnyCase)

\* a record of TestZipfLow_LRU_Size5000 with size 5000, and a record of a test
\* named ..._Small with size 1000
WitnessC13 ==
    /\ hitPc = "parsed" /\ ~hitOut.raised
    /\ \E k \in 1..Len(hitOut.records) :
          /\ hitOut.records[k].cache_size = 5000
          /\ Occurs(ContextAt(k), "ZipfLow") /\ Occurs(ContextAt(k), "LRU")
    /\ \E k \in 1..Len(hitOut.records) :
          /\ hitOut.records[k].cache_size = 1000
          /\ Occurs(ContextAt(k), "Small") /\ ~Occurs(ContextAt(k), "small")

\* the duration text of the k-th block of the transcript
DurationText(k) == hitratio_results(hitContent)[k].groups[7]

\* two fractions are the same number
SameNumber(a, b) == a.num * b.den = b.num * a.den

\* the milliseconds of x counted in the unit u
InUnit(x, u) ==
    CASE u = "us" -> [num |-> x.num, den |-> x.den * 1000]
      [] u = "ns" -> [num |-> x.num, den |-> x.den * 1000000]
      [] u = "ms" -> x
      [] u = "s" -> [num |-> x.num * 1000, den |-> x.den]

\* the milliseconds a duration text stands for: its number in its own unit
OwnMs(val) == InUnit(RatOf(FloatRun(SubSeq(val, 1, Len(val) - 1)).v), val[Len(val)].s)

\* duration_ms of a record is what its duration text stands for
RightDuration(rec, val) ==
    /\ SameNumber(rec.duration_ms, OwnMs(val))
    /\ val = Us500 => SameNumber(rec.duration_ms, [num |-> 1, den |-> 2])
    /\ val = S2 => SameNumber(rec.duration_ms, [num |-> 2000, den |-> 1])
    /\ val = Ns10 => SameNumber(rec.duration_ms, [num |-> 1, den |-> 100000])
    /\ val = Ms1234 => SameNumber(rec.duration_ms, [num |-> 1234, den |-> 10])

\* Claim C14: duration_ms of every record is the number of its duration text
\* converted to milliseconds by the text's own unit: microseconds / 1000,
\* ns / 1000000, ms as they are, s * 1000 (500us is 0.5, 2s is 2000, 10ns is
\* 0.00001, 123.4ms is 123.4).
ClaimC14 ==
    (hitPc = "parsed" /\ ~hitOut.raised) =>
        \A k \in 1..Len(hitOut.records) : RightDuration(hitOut.records[k], DurationText(k))

\* a transcript of a test that took 500 microseconds and one that took 10ns
WitnessC14 ==
    /\ hitPc = "parsed" /\ ~hitOut.raised
    /\ Len(hitOut.records) = 2
    /\ DurationText(1) = Us500 /\ hitOut.records[1].duration_ms = [num |-> 500, den |-> 1000]
    /\ DurationText(2) = Ns10 /\ hitOut.records[2].duration_ms = [num |-> 10, den |-> 1000000]

\* the k-th match of the pattern in the transcript
MatchAt(k) == hitratio_results(hitContent)[k]

\* the statistics blocks of the transcript that have all their fields
WholeBlocks == Cardinality({i \in 1..Len(hitContent) : hitContent[i] = Key("duration")})

\* some keyword of the list `order` occurs in the text
SomeOf(ctx, order) == \E n \in 1..Len(order) : Occurs(ctx, order[n][1])

\* the parameters of the record are null exactly where the context has no keyword
NullWhereUnresolved(rec, ctx) ==
    /\ (rec.distribution = None) = ~SomeOf(ctx, DistributionOrder)
    /\ (rec.policy = None) = ~SomeOf(ctx, PolicyOrder)
    /\ rec.cache_size \in Nat

\* the metrics of the record are the numbers of the block
MetricsOf(rec, bm) ==
    /\ rec.total_operations = IntOf(bm.groups[1][1].d)
    /\ rec.hits = IntOf(bm.groups[2][1].d)
    /\ rec.misses = IntOf(bm.groups[3][1].d)
    /\ rec.hit_ratio = FloatRun(bm.groups[4]).v
    /\ rec.evictions = IntOf(bm.groups[5][1].d)
    /\ rec.eviction_ratio = FloatRun(bm.groups[6]).v
    /\ SameNumber(rec.duration_ms, OwnMs(bm.groups[7]))

\* Claim C15: a block whose context has no distribution keyword or no policy
\* keyword gives a record all the same: the field without keyword is null, the
\* other fields and the metrics are filled, and every whole block of the
\* transcript, the later ones included, has its record.
ClaimC15 ==
    (hitPc = "parsed" /\ ~hitOut.raised) =>
        /\ Len(hitOut.records) = WholeBlocks
        /\ \A k \in 1..Len(hitOut.records) :
              /\ NullWhereUnresolved(hitOut.records[k], ContextAt(k))
              /\ MetricsOf(hitOut.records[k], MatchAt(k))

\* a transcript of two tests, the first without any keyword, the second with a
\* policy keyword only after it
WitnessC15 ==
    /\ hitPc = "parsed" /\ ~hitOut.raised
    /\ Len(hitOut.records) = 2
    /\ hitOut.records[1].distribution = None /\ hitOut.records[1].policy = None
    /\ hitOut.records[1].total_operations = 10000 /\ hitOut.records[1].hits = 50
    /\ hitOut.records[2].distribution = None /\ hitOut.records[2].policy = "random"
    /\ hitOut.records[2].cache_size = 100000

\* no test-start marker stands before index i of the transcript
NoMarkerBefore(i) == \A j \in 1..(i - 1) : hitContent[j] # RunMarker

\* the parameters of a record whose context lookup found nothing
Defaulted(rec) ==
    /\ rec.test_name = <<>>
    /\ rec.distribution = None
    /\ rec.policy = None
    /\ rec.cache_size = MediumSize

\* Claim C16: a block with no test-start marker before it gives a record with
\* the parameters defaulted (test_name, distribution and policy null,
\* cache_size 10000), whatever text stands before the block.
ClaimC16 ==
    (hitPc = "parsed" /\ ~hitOut.raised) =>
        \A k \in 1..Len(hitOut.records) :
            NoMarkerBefore(MatchAt(k).start) => Defaulted(hitOut.records[k])

-----------------------------------------------------------------------------
(* Properties of the Vegeta parser *)

\* the lines of the file that hold text
Written == SelectSeq(vegLines, LAMBDA l : l # JBlank)

\* the three encodings of a result file: one JSON object, one JSON array of
\* objects, or lines that each hold a JSON object or text that is no JSON
SingleObject == Len(Written) = 1 /\ Written[1].jt = "object"

SingleArray ==
    /\ Len(Written) = 1 /\ Written[1].jt = "array"
    /\ \A i \in 1..Len(Written[1].items) : Written[1].items[i].jt = "object"

LineDelimited ==
    /\ Len(Written) # 1 \/ Written[1] = JInvalid
    /\ \A i \in 1..Len(Written) : Written[i].jt \in {"object", "invalid"}

\* the reports the file holds, in its order
ReportsWritten ==
    IF SingleArray THEN Written[1].items
    ELSE SelectSeq(Written, LAMBDA l : l.jt = "object")

\* Claim C17: a file that holds one JSON object gives one record, a JSON
\* array of n objects n records in the order of the array, and lines of JSON
\* objects one record per line that holds an object, in the order of the
\* lines; blank lines and lines that are no JSON are passed over and the file
\* does not fail.
ClaimC17 ==
    (vegPc = "parsed" /\ (SingleObject \/ SingleArray \/ LineDelimited)) =>
        /\ ~vegOut.raised
        /\ Len(vegOut.records) = Len(ReportsWritten)
        /\ \A k \in 1..Len(vegOut.records) :
              vegOut.records[k].requests = ReportsWritten[k].fields.requests

\* a parsed file of three lines, the second no JSON, the others two reports
WitnessC17 ==
    /\ vegPc = "parsed"
    /\ Len(vegLines) = 3
    /\ vegLines[1] = Report100 /\ vegLines[2] = JInvalid /\ vegLines[3] = Report95
    /\ Len(vegOut.records) = 2
    /\ vegOut.records[1].requests = Rat(2000, 1)
    /\ vegOut.records[2].requests = Rat(1000, 1)

-----------------------------------------------------------------------------
(* The lines the concurrency loader passes over *)

\* the lines of a result file that json.loads rejects
DroppedIn(lines) == Len(SelectSeq(lines, LAMBDA l : l = JInvalid))

\* the lines passed over in the files the loader has parsed, from file i on
RECURSIVE DroppedFrom(_)
DroppedFrom(i) ==
    IF i > Len(loadDir) THEN 0
    ELSE (IF IsCandidate("concurrency", loadDir[i].name) /\ loadDir[i].readable
          THEN DroppedIn(loadDir[i].content) ELSE 0) + DroppedFrom(i + 1)

\* what the analyzer keeps of a load besides its outcome and self.results
KeptBesidesResults == DOMAIN loadOut \ {"outcome", "results"}

\* Claim C18: when lines of newline-delimited result files were passed over
\* because they did not parse, the analyzer keeps, after the load, a count
\* equal to the number of those lines.
ClaimC18 ==
    (loadKind = "concurrency" /\ loadOut.outcome = "returned" /\ DroppedFrom(1) > 0) =>
        \E a \in KeptBesidesResults : loadOut[a] = DroppedFrom(1)

-----------------------------------------------------------------------------
(* The metrics and the parameters of the Vegeta records *)

\* the success fraction of a report, 0 when the report has none
SuccessOf(report) ==
    IF "success" \in DOMAIN report.fields THEN report.fields.success ELSE Rat(0, 1)

\* 100 x (1 - s)
FailurePercent(s) == Rat(100 * (s.den - s.num), s.den)

\* the float x has exactly the value r (the exponent of a float that is at
\* most 100 and not a whole number of bits is never positive)
FloatIs(x, r) == TimesSmall(x.m, r.den) = TimesSmall(Pow2(0 - x.e), r.num)

RightSuccessRate(rec, report) ==
    /\ FloatIs(rec.success_rate, FailurePercent(SuccessOf(report)))
    /\ report = Report95 => FloatIs(rec.success_rate, Rat(5, 1))
    /\ report = Report100 => FloatIs(rec.success_rate, Rat(0, 1))
    /\ report = ReportBare => FloatIs(rec.success_rate, Rat(100, 1))

\* Claim C19: success_rate of every record is 100 x (1 - success), success
\* being the fraction of the report and 0 for a report without one: 0.95 gives
\* 5, 1 gives 0, no success field gives 100.
ClaimC19 ==
    (vegPc = "parsed" /\ ~vegOut.raised /\ (SingleObject \/ SingleArray \/ LineDelimited)) =>
        \A k \in 1..Len(vegOut.records) :
            RightSuccessRate(vegOut.records[k], ReportsWritten[k])


\* the value of a parameter in three steps: the value of the name when its
\* rule matches at i, else the field of the payload when it has it, else the
\* default
Resolved(i, ofName, fields, key, ofDefault) ==
    IF i > 0 THEN ofName ELSE IF key \in DOMAIN fields THEN fields[key] ELSE ofDefault

\* the duration of a payload in seconds, 0 without one
PayloadSeconds(fields) ==
    Rat(Get(fields, "duration", Rat(0, 1)).num, Get(fields, "duration", Rat(0, 1)).den * 1000000000)

\* the parameters of a record follow the three steps, the name matching at c,
\* r, d and k (0: no match)
ResolvedAt(rec, basename, fields, c, r, d, k) ==
    /\ rec.concurrency = Resolved(c, IntOf(At(basename, c).d), fields, "concurrency", 1)
    /\ rec.target_rate = Resolved(r, Rat(IntOf(At(basename, r).d), 1), fields, "rate", Rat(0, 1))
    /\ rec.target_duration =
           IF d > 0 THEN SecondsOf(IntOf(basename[d].d), FirstCharOf(basename[d + 1].s))
           ELSE PayloadSeconds(fields)
    /\ rec.cache_config =
           Resolved(k, SubSeq(basename, k, RunEnd(basename, k, IsWordTok)), fields,
                    "cache_config", <<W("default")>>)

\* Claim C20: each of concurrency, target_rate, target_duration and
\* cache_config of a record is the value of its file-name rule when the rule
\* matches, else the field of the report when the report has it, else the
\* default (concurrency 1, cache_config "default", target_duration the
\* duration of the report in seconds).
ClaimC20 ==
    (vegPc = "parsed" /\ ~vegOut.raised /\ (SingleObject \/ SingleArray \/ LineDelimited)) =>
        \A n \in 1..Len(vegOut.records) :
            ResolvedAt(vegOut.records[n], vegName, ReportsWritten[n].fields,
                       LetterDigitsAt(vegName, "c"), LetterDigitsAt(vegName, "r"),
                       DurationAt(vegName), CacheAt(vegName))


-----------------------------------------------------------------------------
(* The top functions of a profile *)

\* the place of the header of a table: its first line that holds 'flat',
\* 'cum' and '%', 0 without one
HeaderOf(table) == FirstIn({i \in 1..Len(table) : table[i].header})

IsDataRow(l) == l.kind = "row"

\* the records the rows of a table after its header stand for, in their order
RowsAfter(table, h) ==
    IF h = 0 THEN <<>>
    ELSE [i \in 1..Len(SelectSeq(SubSeq(table, h + 1, Len(table)), IsDataRow)) |->
            SelectSeq(SubSeq(table, h + 1, Len(table)), IsDataRow)[i].record]

RecordsOfTable(table) == RowsAfter(table, HeaderOf(table))

\* a row of at least 5 tokens after the header whose percentages are no numbers
HasBadRow(table) ==
    \E i \in 1..Len(table) : table[i].kind = "bad" /\ HeaderOf(table) \in 1..(i - 1)

\* the profile files the tool was run on with -top and printed a table for
Printed(f) == pprofTool = "present" /\ f.top.end = "exit 0"

\* Claim C21: the top functions of a profile are the rows of the table after
\* its header (the first line that holds flat, cum and %), one record
\* {flat_pct, flat_val, cum_pct, cum_val, function} per data row in the order
\* of the rows, the function being every token from the fifth on joined by
\* single spaces; rows of fewer than 5 tokens and blank rows are passed over,
\* and a table without a header, or with nothing after it, gives no record and
\* no error.  (Rows whose percentages are no numbers are the case of C22.)
ClaimC21 ==
    /\ \A k \in 1..Len(pprofOut.profiles) :
          Printed(ProfilesIn(pprofDir)[k]) =>
              pprofOut.profiles[k].top_functions =
                  IF RecordsOfTable(ProfilesIn(pprofDir)[k].top.table) = <<>> THEN Nothing
                  ELSE Just(RecordsOfTable(ProfilesIn(pprofDir)[k].top.table))
    /\ pprofPc = "raised" => HasBadRow(ProfileAt.top.table)

\* an analysis that met a table with a short row, blank rows and a function
\* of two words, and a table with no header
WitnessC21 ==
    /\ pprofPc = "returned"
    /\ Len(pprofOut.profiles) = 2
    /\ ProfilesIn(pprofDir)[1].top.table
         = <<HeaderLine, MallocRow, ShortRow, BlankRow, GetRow, BlankRow>>
    /\ pprofOut.profiles[1].top_functions = Just(<<MallocRow.record, GetRow.record>>)
    /\ pprofOut.profiles[1].top_functions[1][2].function
         = <<W("main"), Lit("."), Lit("(*"), W("Cache"), Lit(")"), Lit("."), W("Get"), Ws(" "),
             Lit("("), W("inline"), Lit(")")>>
    /\ ProfilesIn(pprofDir)[2].top.table = <<ShowingLine, DroppedLine>>
    /\ Printed(ProfilesIn(pprofDir)[2])
    /\ pprofOut.profiles[2].top_functions = Nothing


\* the analysis is over
PprofEnded == pprofPc \in {"returned", "raised"}

\* Claim C22: a data row of at least 5 tokens whose first or third token is
\* no percentage is dropped: analyze_profiles does not raise, the other rows
\* of the table give their records and every profile of the directory has
\* its entry.
ClaimC22 ==
    PprofEnded =>
        \A k \in 1..Len(ProfilesIn(pprofDir)) :
            (Printed(ProfilesIn(pprofDir)[k]) /\ HasBadRow(ProfilesIn(pprofDir)[k].top.table)) =>
                /\ pprofPc = "returned"
                /\ Len(pprofOut.profiles) = Len(ProfilesIn(pprofDir))
                /\ pprofOut.profiles[k].top_functions
                     = Just(RecordsOfTable(ProfilesIn(pprofDir)[k].top.table))


-----------------------------------------------------------------------------
(* The analysis without the tool *)

\* the tool step of a profile is skipped: the tool is absent or exits with an error
FlameSkipped(f) == pprofTool = "absent" \/ f.flame = "exit 1"
TopSkipped(f) == pprofTool = "absent" \/ f.top.end = "exit 1"

\* the tool is absent, or every invocation of it on a profile fails
ToolUnavailable ==
    \/ pprofTool = "absent"
    \/ \A k \in 1..Len(ProfilesIn(pprofDir)) :
          ProfilesIn(pprofDir)[k].flame = "exit 1" /\ ProfilesIn(pprofDir)[k].top.end = "exit 1"

\* analyze_profiles is in a call of the tool
InTool == pprofPc \in {"flamegraph", "top"}

\* analyze_profiles is in a call that does not come back
Blocked ==
    /\ InTool
    /\ pprofTool = "present"
    /\ \/ pprofPc = "flamegraph" /\ ProfileAt.flame = "hangs"
       \/ pprofPc = "top" /\ ProfileAt.top.end = "hangs"

\* the entries are those of the first n profile files, in their order
EntriesOf(n) ==
    /\ Len(pprofOut.profiles) = n
    /\ \A k \in 1..n : pprofOut.profiles[k].filename = ProfilesIn(pprofDir)[k].name

\* Claim C23: when the tool is absent or its invocations fail,
\* analyze_profiles neither raises nor blocks and returns one entry per
\* .pprof / .pb.gz file of the directory; the entry of every profile whose
\* flamegraph step was skipped has flamegraph_path None and that of every
\* profile whose top step was skipped has top_functions None.
ClaimC23 ==
    /\ (pprofPc # "input" /\ ToolUnavailable) =>
          /\ pprofPc # "raised"
          /\ ~Blocked
          /\ pprofPc = "returned" => EntriesOf(Len(ProfilesIn(pprofDir)))
    /\ \A k \in 1..Len(pprofOut.profiles) :
          /\ FlameSkipped(ProfilesIn(pprofDir)[k]) =>
                pprofOut.profiles[k].flamegraph_path = Nothing
          /\ TopSkipped(ProfilesIn(pprofDir)[k]) =>
                pprofOut.profiles[k].top_functions = Nothing

\* an analysis of two profiles on which every invocation of the installed
\* tool failed
WitnessC23 ==
    /\ pprofPc = "returned"
    /\ pprofTool = "present"
    /\ Len(ProfilesIn(pprofDir)) = 2
    /\ ToolUnavailable
    /\ EntriesOf(2)
    /\ \A k \in 1..2 : /\ pprofOut.profiles[k].flamegraph_path = Nothing
                       /\ pprofOut.profiles[k].top_functions = Nothing


-----------------------------------------------------------------------------
(* The analysis with a tool that does not come back *)

\* Claim C24: every call of the tool is bounded by a timeout: a call of
\* generate_flamegraph or of the tool of extract_top_functions that
\* analyze_profiles is in always comes back, also when the invocation of the
\* tool never ends, and analyze_profiles goes on.
ClaimC24 == InTool ~> ~InTool


-----------------------------------------------------------------------------
(* Properties of the loaders: file names without a date, loading twice *)

\* the records the parser of a loader gives for a file
ParsedRows(kind, file) ==
    CASE kind = "benchmark" -> parse_benchmark_file(file.content)
      [] kind = "hitratio" -> parse_test_output(file.content).records
      [] kind = "concurrency" -> parse_vegeta_results(file.name, file.content).records

\* the file name holds no run of eight digits
NoDateIn(name) == \A i \in 1..Len(name) : ~(IsNumTok(name[i]) /\ Len(name[i].d) >= 8)

\* file i is a file the loader reads, named without a date, with records in it
UndatedWithRows(kind, dir, i) ==
    /\ IsCandidate(kind, dir[i].name)
    /\ NoDateIn(dir[i].name)
    /\ ParsedRows(kind, dir[i]) # <<>>

AllReadable(dir) == \A i \in 1..Len(dir) : dir[i].readable

\* Claim C25: in a directory whose files can all be read, a file named without
\* a date does not make the loader fail and its records are loaded, with the
\* date '00000000'.
ClaimC25 ==
    (loadOut # NotLoaded /\ AllReadable(loadDir)) =>
        \A i \in 1..Len(loadDir) :
            UndatedWithRows(loadKind, loadDir, i) =>
                /\ loadOut.outcome = "returned"
                /\ \E r \in 1..Len(loadOut.results) :
                      /\ loadOut.results[r].source_file = i
                      /\ loadOut.results[r].date = NoDate


-----------------------------------------------------------------------------
(* Properties of the comprehensive run: the stages *)

\* where main is, counted along its calls
PlaceOf(pc) ==
    CASE pc = "main" -> 0
      [] pc \in StageSet -> CHOOSE i \in 1..Len(Stages) : Stages[i] = pc
      [] pc = "report" -> Len(Stages) + 1
      [] pc \in {"done", "raised"} -> Len(Stages) + 2

\* stage k of the run went through its load (or analysis) and its statistics
RanThrough(k) ==
    /\ ~runSkip[k]
    /\ IF k = "pprof"
       THEN runPprof = "profiles" /\ HasResults(analyzer', k)
       ELSE /\ runDir[k].exists
            /\ HasResults(analyzer', k)
            /\ generate_descriptive_stats(k, analyzer'[k].results).outcome = "returned"

\* a step of main: the next call in the order of main, whatever the stage
\* did, and a report path set by its own stage only, when the stage ran through
StageStep ==
    /\ PlaceOf(runPc') = PlaceOf(runPc) + 1
    /\ runPc' = "raised" => runPc = "report"
    /\ \A k \in StageSet :
          report_paths'[k] # report_paths[k] =>
              /\ runPc = k
              /\ report_paths'[k]
              /\ RanThrough(k)

\* Claim C27: main calls the stages in the order benchmark, hit ratio,
\* concurrency, pprof, then generate_comprehensive_report; a stage that is
\* skipped, has no input or fails raises nothing and leaves its report path
\* None, the step after it being the next call of main, and the report path
\* of a stage is set only by that stage, once it ran through.
ClaimC27 == [][StageStep]_runVars

\* a run in which a stage failed and a later stage wrote its report, at the
\* comprehensive report
WitnessC27 ==
    /\ runPc = "report"
    /\ \E i \in 1..Len(Stages), j \in 1..Len(Stages) :
          /\ i < j
          /\ ~runSkip[Stages[i]]
          /\ analyzer[Stages[i]].created
          /\ ~report_paths[Stages[i]]
          /\ report_paths[Stages[j]]


-----------------------------------------------------------------------------
(* Properties of the file-name rule for the cache configuration *)

\* a part of a file name: letters or digits, no underscore
IsNamePart(tok) == IsWordTok(tok) /\ tok # W("_")

\* the <name> of cache-<name> in a file name: what follows `cache-` up to the
\* next underscore or the extension
ConfigName(basename) ==
    SubSeq(basename, CacheAt(basename), RunEnd(basename, CacheAt(basename), IsNamePart))

\* Claim C28: for a file name with cache-<name> in it, followed or not by
\* further parts after an underscore, the cache_config of every record is
\* <name> alone (lru for c20_r100_d30s_cache-lru_20250603.json), whatever the
\* date in the name.
ClaimC28 ==
    (vegPc = "parsed" /\ ~vegOut.raised /\ CacheAt(vegName) > 0) =>
        \A i \in 1..Len(vegOut.records) :
            vegOut.records[i].cache_config = ConfigName(vegName)


-----------------------------------------------------------------------------
(* Properties of the statistics blocks a record is taken from *)

\* the header of the statistics block the token at index i is in
BlockOf(content, i) ==
    LastIn({h \in 1..i : content[h] = Key("results")})

\* every value of the match is in the block of its header
InOneBlock(content, bm) ==
    \A n \in 1..Len(FieldOrder) : BlockOf(content, bm.at[n]) = bm.start

\* the block with its header at h has all seven fields
IsWholeBlock(content, h) ==
    /\ content[h] = Key("results")
    /\ BlockMatch(content, h).ok
    /\ InOneBlock(content, BlockMatch(content, h))

\* Claim C29: every record of parse_test_output takes its seven values from
\* one statistics block, a cut block followed by a whole block included, and
\* every whole block gives its record.
ClaimC29 ==
    (hitPc = "parsed" /\ ~hitOut.raised) =>
        /\ Len(hitOut.records) = Len(hitratio_results(hitContent))
        /\ \A k \in 1..Len(hitratio_results(hitContent)) :
              InOneBlock(hitContent, hitratio_results(hitContent)[k])
        /\ \A h \in 1..Len(hitContent) :
              IsWholeBlock(hitContent, h) =>
                  \E k \in 1..Len(hitratio_results(hitContent)) :
                      hitratio_results(hitContent)[k].start = h


-----------------------------------------------------------------------------
(* Properties of the comprehensive report *)

\* Claim C30: in the comprehensive report the conclusion block of an analysis
\* is there only if the analysis produced its report (its report path is
\* set), never together with the line 'No ... results available.' of that
\* analysis.
ClaimC30 ==
    runReport.written =>
        \A k \in StageSet :
            runReport.conclusion[k] => (report_paths[k] /\ runReport.section[k])

=============================================================================
